---- MODULE Spec2Model ----
(***************************************************************************)
(* Context-window budget management of openclaw: the turn-aware history    *)
(* pruner, the chunked summarizer with its fallback ladder, and the        *)
(* overflow-recovery rewriter of the persisted session log.                *)
(***************************************************************************)
EXTENDS Integers, Sequences, FiniteSets, TLC

(***************************************************************************)
(* Bounds of the model.                                                    *)
(***************************************************************************)
MaxHistory == 3

MaxContextTokens == 5

VARIABLES
    history,        \* pruner: params.messages of the last call (never written)
    pruned,         \* pruner: the result of the last pruneHistoryForContextShare call
    prunedBefore,   \* pruner: the result of the call before it, same history
    sumParams,      \* summarizer: the params of the summarizeInStages call
    summarizer,     \* summarizer: where the call stands (its locals and logs)
    signalAborted,  \* summarizer: params.signal.aborted
    sessionFile,    \* rewriter: the entries of the persisted session log
    rewriter,       \* rewriter: where truncateOversizedToolResultsInSession stands
    compactor,      \* rewriter: another writer of the same log (a compaction run)
    sessionLock,    \* rewriter: the holder of the session write lock
    clamp,          \* clamp: one hardTruncateText call and its repetition
    capper,         \* capper: one hardCapToolOutput call
    numeric,        \* one call of each of the chunk-ratio, token-estimate or partition functions
    embedded,       \* runs: the active embedded run of a session and its compaction buffer
    guard,          \* guard: the session manager behind installSessionToolResultGuard
    compactions,    \* runs: the compaction requests and completions of one session
    telegram        \* telegram: the webhook listener, its spool and the bot behind it

prunerVars == <<history, pruned, prunedBefore>>

summarizerVars == <<sumParams, summarizer, signalAborted>>

rewriterVars == <<sessionFile, rewriter, compactor, sessionLock>>

pureVars == <<clamp, capper>>

laterVars == <<guard, compactions, telegram>>

vars == <<history, pruned, prunedBefore, sumParams, summarizer, signalAborted,
          sessionFile, rewriter, compactor, sessionLock, clamp, capper, numeric, embedded,
          guard, compactions, telegram>>

NoResult == [none |-> TRUE]

(***************************************************************************)
(* Generic helpers.                                                        *)
(***************************************************************************)
Max(a, b) == IF a >= b THEN a ELSE b

Min(a, b) == IF a <= b THEN a ELSE b

SeqsUpTo(S, n) == UNION {[1..k -> S] : k \in 0..n}

(***************************************************************************)
(* Messages.  A message carries its role, the token estimate the external  *)
(* estimator gives it, the ids of the tool calls it makes (assistant) and  *)
(* the id of the call it answers (toolResult, 0 otherwise).                *)
(***************************************************************************)
Msg(role, tokens, calls, callId) ==
    [role |-> role, tokens |-> tokens, toolCalls |-> calls, toolCallId |-> callId]

MessageKinds ==
    {Msg("user", t, {}, 0) : t \in {1, 2}}
    \cup {Msg("toolResult", t, {}, 1) : t \in {1, 2}}
    \cup {Msg("assistant", 1, {}, 0), Msg("assistant", 2, {1}, 0),
          Msg("toolResult", 1, {}, 2), Msg("bashExecution", 1, {}, 0)}

estimateTokens(message) == message.tokens

RECURSIVE estimateMessagesTokens(_)
estimateMessagesTokens(messages) ==
    IF messages = <<>> THEN 0
    ELSE estimateTokens(Head(messages)) + estimateMessagesTokens(Tail(messages))

(***************************************************************************)
(* sanitizeTokensAfterEstimate: the ratio 1.1 is compared in tenths.       *)
(***************************************************************************)
sanitizeTokensAfterEstimate(tokensAfter, tokensBefore) ==
    IF tokensAfter < 0 THEN tokensBefore
    ELSE IF tokensBefore <= 0 THEN tokensAfter
    ELSE IF tokensAfter * 10 > tokensBefore * 11 THEN tokensBefore
    ELSE tokensAfter

(***************************************************************************)
(* TurnAwarePruner.  Cut indices are the code's 0-based indices: the kept  *)
(* suffix of a cut index c is messages[c..], i.e. SubSeq(m, c+1, Len(m)).  *)
(***************************************************************************)
\* a plausible slip: a bashExecution message is not taken as a turn boundary
isTurnBoundaryRoleUserOnly(role) == role = "user"

isTurnBoundaryRole(role) == role = "user" \/ role = "bashExecution"

\* a plausible slip: the toolResult test is left out
isValidCutPointAnyRole(message) == TRUE

isValidCutPoint(message) == message.role # "toolResult"

\* messages.slice(from)
SliceFrom(messages, from) == SubSeq(messages, from + 1, Len(messages))

\* messages.slice(0, to)
SliceTo(messages, to) == SubSeq(messages, 1, to)

\* a plausible slip: the sums run from the front, suffixTokens[i] holding
\* the tokens of messages[0..i)
suffixTokensOfPrefix(messages, i) == estimateMessagesTokens(SliceTo(messages, i))

\* suffixTokens[i] = tokens of messages[i..end]
suffixTokens(messages, i) == estimateMessagesTokens(SliceFrom(messages, i))

\* the indices 0..n-1 in ascending order, as the code's loops visit them
Indices(messages) == [k \in 1..Len(messages) |-> k - 1]

validCutPoints(messages) ==
    SelectSeq(Indices(messages), LAMBDA i : isValidCutPoint(messages[i + 1]))

\* a plausible slip: an off-by-one leaves the message at the cut out of the sum
feasibleCutPointsOffByOne(messages, budgetTokens) ==
    SelectSeq(validCutPoints(messages),
              LAMBDA i : suffixTokens(messages, i + 1) <= budgetTokens)

feasibleCutPoints(messages, budgetTokens) ==
    SelectSeq(validCutPoints(messages),
              LAMBDA i : suffixTokens(messages, i) <= budgetTokens)

\* a plausible slip: the turn boundaries are filtered out of the valid cut
\* points, feasible or not
turnBoundariesOfValid(messages, budgetTokens) ==
    SelectSeq(validCutPoints(messages),
              LAMBDA i : isTurnBoundaryRole(messages[i + 1].role))

feasibleTurnBoundaries(messages, budgetTokens) ==
    SelectSeq(feasibleCutPoints(messages, budgetTokens),
              LAMBDA i : isTurnBoundaryRole(messages[i + 1].role))

\* a plausible slip: the exhaustion case keeps from the first valid cut point
exhaustionCutFirst(valid) == valid[1]

\* "keep from the last valid cut point"
exhaustionCut(valid) == valid[Len(valid)]

\* a plausible slip: without a valid cut point everything is kept
noValidCutKeepAll(messages) == 0

\* "All messages are toolResult - drop everything"
noValidCut(messages) == Len(messages)

\* a plausible slip: a history that uses the budget exactly is pruned
fitsEntirelyStrict(messages, budgetTokens) ==
    estimateMessagesTokens(messages) < budgetTokens

\* estimateMessagesTokens(messages) <= budgetTokens: "everything fits"
fitsEntirely(messages, budgetTokens) ==
    estimateMessagesTokens(messages) <= budgetTokens

chooseTurnAwareCutIndex(messages, budgetTokens) ==
    IF Len(messages) = 0 THEN 0
    ELSE IF fitsEntirely(messages, budgetTokens) THEN 0
    ELSE LET valid == validCutPoints(messages)
             feasible == feasibleCutPoints(messages, budgetTokens)
             boundaries == feasibleTurnBoundaries(messages, budgetTokens)
             candidates == IF Len(boundaries) > 0 THEN boundaries ELSE feasible
         IN  IF Len(valid) = 0 THEN noValidCut(messages)
             ELSE IF Len(feasible) = 0 THEN exhaustionCut(valid)
             ELSE candidates[1]

(***************************************************************************)
(* repairToolUseResultPairing lives in session-transcript-repair.ts; it is *)
(* modelled from the specification's repair pass: a toolResult whose tool  *)
(* call is not made by an earlier message of the same list is an orphan,   *)
(* it is dropped and counted.                                              *)
(***************************************************************************)
RECURSIVE repairWalk(_, _, _, _)
repairWalk(rest, seen, out, orphans) ==
    IF rest = <<>> THEN [messages |-> out, droppedOrphanCount |-> orphans]
    ELSE LET m == Head(rest) IN
         IF m.role = "toolResult" /\ m.toolCallId \notin seen
         THEN repairWalk(Tail(rest), seen, out, orphans + 1)
         ELSE repairWalk(Tail(rest), seen \cup m.toolCalls, Append(out, m), orphans)

repairToolUseResultPairing(messages) == repairWalk(messages, {}, <<>>, 0)

\* budgetTokens = max(1, floor(maxContextTokens * maxHistoryShare)), the
\* share given in percent (default 0.5 = 50)
budgetOf(maxContextTokens, sharePct) == Max(1, (maxContextTokens * sharePct) \div 100)

\* a plausible slip: the repair report is computed but the unrepaired
\* suffix is returned
keptAfterRepairSkipped(keptCandidate, repairReport) == keptCandidate

\* const repairedKept = repairReport.messages
keptAfterRepair(keptCandidate, repairReport) == repairReport.messages

\* a plausible slip: splice in place of slice takes the dropped prefix out
\* of the caller's array
paramsMessagesAfterSplice(messages, cutIndex) == SliceFrom(messages, Max(0, cutIndex))

\* params.messages after the call: slice(0, cutIndex) and slice(cutIndex)
\* copy, and nothing else writes to the array
paramsMessagesAfter(messages, cutIndex) == messages

pruneHistoryForContextShare(messages, maxContextTokens, sharePct) ==
    LET budgetTokens == budgetOf(maxContextTokens, sharePct)
        tokensBefore == estimateMessagesTokens(messages)
        cutIndex == chooseTurnAwareCutIndex(messages, budgetTokens)
        dropped == SliceTo(messages, cutIndex)
        keptCandidate == SliceFrom(messages, cutIndex)
        repairReport == repairToolUseResultPairing(keptCandidate)
        repairedKept == keptAfterRepair(keptCandidate, repairReport)
    IN  IF cutIndex <= 0
        THEN [messages |-> messages,
              sameArray |-> TRUE,
              droppedMessagesList |-> <<>>,
              droppedChunks |-> 0,
              droppedMessages |-> 0,
              droppedTokens |-> 0,
              keptTokens |-> tokensBefore,
              budgetTokens |-> budgetTokens]
        ELSE [messages |-> repairedKept,
              sameArray |-> FALSE,
              droppedMessagesList |-> dropped,
              droppedChunks |-> 1,
              droppedMessages |-> Len(dropped) + repairReport.droppedOrphanCount,
              droppedTokens |-> estimateMessagesTokens(dropped),
              keptTokens |-> sanitizeTokensAfterEstimate(
                                 estimateMessagesTokens(repairedKept), tokensBefore),
              budgetTokens |-> budgetTokens]

(***************************************************************************)
(* The pruner's specification: a history is given, and the pruner is       *)
(* called on it with one budget after another.                             *)
(***************************************************************************)
SharePcts == {50, 100}

\* the histories of the turn-aware pruning tests, three [user, assistant]
\* pairs and [assistant with toolUse, its toolResult, user], with the
\* messages' sizes taken as tokens and as characters (four to a token)
PairsHistory(tokens) ==
    [k \in 1..6 |-> IF k % 2 = 1 THEN Msg("user", tokens, {}, 0)
                                 ELSE Msg("assistant", tokens, {}, 0)]

ToolUseHistory(perToken) ==
    <<Msg("assistant", 4000 \div perToken, {1}, 0),
      Msg("toolResult", 3000 \div perToken, {}, 1),
      Msg("user", 500 \div perToken, {}, 0)>>

ScenarioHistories ==
    {PairsHistory(4000), PairsHistory(1000), ToolUseHistory(1), ToolUseHistory(4)}

\* maxContextTokens of those tests
ScenarioContextTokens == {2000, 4000}

ContextTokensFor(messages) ==
    IF messages \in ScenarioHistories
    THEN 0..MaxContextTokens \cup ScenarioContextTokens
    ELSE 0..MaxContextTokens

PrunerInit ==
    /\ history \in SeqsUpTo(MessageKinds, MaxHistory) \cup ScenarioHistories
    /\ pruned = NoResult
    /\ prunedBefore = NoResult
    /\ sumParams = NoResult
    /\ summarizer = NoResult
    /\ signalAborted = FALSE
    /\ sessionFile = <<>>
    /\ rewriter = NoResult
    /\ compactor = NoResult
    /\ sessionLock = "free"
    /\ numeric = NoResult
    /\ embedded = NoResult
    /\ guard = NoResult
    /\ compactions = NoResult
    /\ telegram = NoResult
    /\ clamp = NoResult
    /\ capper = NoResult

Prune(maxContextTokens, sharePct) ==
    /\ maxContextTokens \in ContextTokensFor(history)
    /\ pruned' = pruneHistoryForContextShare(history, maxContextTokens, sharePct)
    /\ prunedBefore' = pruned
    /\ history' = paramsMessagesAfter(history,
                       chooseTurnAwareCutIndex(history, budgetOf(maxContextTokens, sharePct)))
    /\ UNCHANGED <<summarizerVars, rewriterVars, pureVars, numeric, embedded, laterVars>>

PrunerNext ==
    \E c \in 0..MaxContextTokens \cup ScenarioContextTokens, s \in SharePcts : Prune(c, s)

PrunerSpec == PrunerInit /\ [][PrunerNext]_vars

(***************************************************************************)
(* The pruner applied to its own result: one call on a history, then one   *)
(* call with the same parameters on the messages the first call returned.  *)
(* prunedBefore holds the result of the first call.                        *)
(***************************************************************************)
PruneFirst(maxContextTokens, sharePct) ==
    /\ pruned = NoResult
    /\ pruned' = pruneHistoryForContextShare(history, maxContextTokens, sharePct)
    /\ UNCHANGED <<history, prunedBefore>>
    /\ UNCHANGED <<summarizerVars, rewriterVars, pureVars, numeric, embedded, laterVars>>

PruneKept(maxContextTokens, sharePct) ==
    /\ pruned # NoResult
    /\ prunedBefore = NoResult
    /\ budgetOf(maxContextTokens, sharePct) = pruned.budgetTokens
    /\ pruned' = pruneHistoryForContextShare(pruned.messages, maxContextTokens, sharePct)
    /\ prunedBefore' = pruned
    /\ UNCHANGED history
    /\ UNCHANGED <<summarizerVars, rewriterVars, pureVars, numeric, embedded, laterVars>>

RepruneNext ==
    \/ \E c \in 0..MaxContextTokens, s \in SharePcts : PruneFirst(c, s)
    \/ \E c \in 0..MaxContextTokens, s \in SharePcts : PruneKept(c, s)

RepruneSpec == PrunerInit /\ [][RepruneNext]_vars

(***************************************************************************)
(* ChunkedSummarizer.  Token arithmetic with the fractional constants is   *)
(* done in integers: SAFETY_MARGIN = 1.2 is 12 tenths, the oversize share  *)
(* 0.5 is 5 tenths.                                                        *)
(***************************************************************************)
Undefined == [kind |-> "undefined"]

DEFAULT_SUMMARY_FALLBACK == [kind |-> "default"]

DEFAULT_PARTS == 2

\* the default of params.minMessagesForSplit
DefaultMinMessagesForSplit == 4

\* a ?? b
OrElse(a, b) == IF a = Undefined THEN b ELSE a

\* messages of the summarizer: an identity, a token estimate, a role and
\* the content (a partial summary for the messages of the merge pass)
SumMsg(id, tokens) ==
    [id |-> id, tokens |-> tokens, role |-> "user", content |-> [kind |-> "text"]]

Ids(messages) == [k \in 1..Len(messages) |-> messages[k].id]

normalizeParts(parts, messageCount) ==
    IF parts <= 1 THEN 1
    ELSE Min(Max(1, parts), Max(1, messageCount))

\* a plausible slip: the test on the number of parts made so far is left out
RECURSIVE splitLoopUncapped(_, _, _, _, _, _)
splitLoopUncapped(rest, chunks, current, currentTokens, totalTokens, normalizedParts) ==
    IF rest = <<>>
    THEN IF Len(current) > 0 THEN Append(chunks, current) ELSE chunks
    ELSE LET message == Head(rest)
             messageTokens == estimateTokens(message)
             cut == /\ Len(current) > 0
                    /\ (currentTokens + messageTokens) * normalizedParts > totalTokens
         IN  IF cut
             THEN splitLoopUncapped(Tail(rest), Append(chunks, current), <<message>>,
                                    messageTokens, totalTokens, normalizedParts)
             ELSE splitLoopUncapped(Tail(rest), chunks, Append(current, message),
                                    currentTokens + messageTokens, totalTokens,
                                    normalizedParts)

\* splitMessagesByTokenShare: the loop over the messages; targetTokens is
\* totalTokens / normalizedParts, compared after multiplying through
RECURSIVE splitLoop(_, _, _, _, _, _)
splitLoop(rest, chunks, current, currentTokens, totalTokens, normalizedParts) ==
    IF rest = <<>>
    THEN IF Len(current) > 0 THEN Append(chunks, current) ELSE chunks
    ELSE LET message == Head(rest)
             messageTokens == estimateTokens(message)
             cut == /\ Len(chunks) < normalizedParts - 1
                    /\ Len(current) > 0
                    /\ (currentTokens + messageTokens) * normalizedParts > totalTokens
         IN  IF cut
             THEN splitLoop(Tail(rest), Append(chunks, current), <<message>>,
                            messageTokens, totalTokens, normalizedParts)
             ELSE splitLoop(Tail(rest), chunks, Append(current, message),
                            currentTokens + messageTokens, totalTokens, normalizedParts)

splitMessagesByTokenShare(messages, parts) ==
    IF Len(messages) = 0 THEN <<>>
    ELSE LET normalizedParts == normalizeParts(parts, Len(messages)) IN
         IF normalizedParts <= 1 THEN <<messages>>
         ELSE splitLoop(messages, <<>>, <<>>, 0,
                        estimateMessagesTokens(messages), normalizedParts)

\* a plausible slip: the flush test leaves out the message about to be added
RECURSIVE chunkLoopFlushLate(_, _, _, _, _)
chunkLoopFlushLate(rest, chunks, currentChunk, currentTokens, maxTokens) ==
    IF rest = <<>>
    THEN IF Len(currentChunk) > 0 THEN Append(chunks, currentChunk) ELSE chunks
    ELSE LET message == Head(rest)
             messageTokens == estimateTokens(message)
             flush == Len(currentChunk) > 0 /\ currentTokens > maxTokens
             chunks1 == IF flush THEN Append(chunks, currentChunk) ELSE chunks
             chunk1 == Append(IF flush THEN <<>> ELSE currentChunk, message)
             tokens1 == (IF flush THEN 0 ELSE currentTokens) + messageTokens
         IN  IF messageTokens > maxTokens
             THEN chunkLoopFlushLate(Tail(rest), Append(chunks1, chunk1), <<>>, 0, maxTokens)
             ELSE chunkLoopFlushLate(Tail(rest), chunks1, chunk1, tokens1, maxTokens)

RECURSIVE chunkLoop(_, _, _, _, _)
chunkLoop(rest, chunks, currentChunk, currentTokens, maxTokens) ==
    IF rest = <<>>
    THEN IF Len(currentChunk) > 0 THEN Append(chunks, currentChunk) ELSE chunks
    ELSE LET message == Head(rest)
             messageTokens == estimateTokens(message)
             flush == Len(currentChunk) > 0 /\ currentTokens + messageTokens > maxTokens
             chunks1 == IF flush THEN Append(chunks, currentChunk) ELSE chunks
             chunk1 == Append(IF flush THEN <<>> ELSE currentChunk, message)
             tokens1 == (IF flush THEN 0 ELSE currentTokens) + messageTokens
         IN  IF messageTokens > maxTokens
             THEN chunkLoop(Tail(rest), Append(chunks1, chunk1), <<>>, 0, maxTokens)
             ELSE chunkLoop(Tail(rest), chunks1, chunk1, tokens1, maxTokens)

chunkMessagesByMaxTokens(messages, maxTokens) ==
    IF Len(messages) = 0 THEN <<>>
    ELSE chunkLoop(messages, <<>>, <<>>, 0, maxTokens)

\* estimateTokens(msg) * SAFETY_MARGIN > contextWindow * 0.5
isOversizedForSummary(msg, contextWindow) ==
    estimateTokens(msg) * 12 > contextWindow * 5

\* an error object: its name and the generateSummary call that raised it
Err(name, call) == [kind |-> "error", name |-> name, call |-> call]

\* a plausible slip: only the error's name is looked at
isAbortErrorNameOnly(err, aborted) == err.name = "AbortError"

isAbortError(err, aborted) ==
    IF aborted THEN TRUE ELSE err.name = "AbortError"

(***************************************************************************)
(* The summarizer as a process.  generateSummary is the external async     *)
(* summarizer: a call is issued, and the code resumes when the call        *)
(* returns a summary or throws.  A summary records the call that returned  *)
(* it, the ids it covers (those of its prior summary and of its chunk),    *)
(* the omission notes appended to it and the token estimate of its text.   *)
(***************************************************************************)
Summary(call, covers, notes, tokens) ==
    [kind |-> "summary", call |-> call, covers |-> covers, notes |-> notes,
     tokens |-> tokens]

Covers(summary) == IF summary.kind = "summary" THEN summary.covers ELSE <<>>

Notes(summary) == IF summary.kind = "summary" THEN summary.notes ELSE <<>>

\* the summary the caller hands in as params.previousSummary; id 0 stands
\* for the history it condenses
CallerSummary == Summary(0, <<0>>, <<>>, 1)

\* partialSummary + notes
WithNotes(summary, oversizedNotes) ==
    IF summary.kind = "summary"
    THEN [summary EXCEPT !.notes = @ \o oversizedNotes]
    ELSE summary

\* the user message that carries a partial summary into the merge pass
SummaryMessage(k, summary) ==
    [id |-> 100 + k, tokens |-> summary.tokens, role |-> "user", content |-> summary]

SummaryUnavailable == Err("CompactionSummaryUnavailableError", 0)

IdleSummarizer ==
    [pc |-> "idle", stage |-> "none", splits |-> <<>>, partials |-> <<>>,
     fb |-> Undefined, chunks |-> <<>>, summary |-> Undefined, pass |-> 0,
     calls |-> <<>>, replies |-> <<>>, ladders |-> <<>>,
     result |-> Undefined, error |-> Undefined]

\* await generateSummary(chunk, ..., summary): the call for the first of
\* the remaining chunks goes out
IssueCall(s) ==
    [s EXCEPT !.pc = "awaiting",
              !.calls = Append(@, [chunk |-> Ids(Head(s.chunks)),
                                   prior |-> s.summary,
                                   pass |-> s.pass,
                                   ladder |-> Len(s.ladders) + 1,
                                   phase |-> s.fb.phase,
                                   stage |-> s.stage,
                                   instructions |-> s.fb.instructions])]

\* summarizeChunks over a non-empty list, up to its first await
StartChunks(s, messages) ==
    IssueCall([s EXCEPT !.chunks = chunkMessagesByMaxTokens(messages, sumParams.maxChunkTokens),
                        !.summary = s.fb.previousSummary,
                        !.pass = @ + 1])

\* the call has returned to the caller of summarizeInStages
Finish(s, value) == [s EXCEPT !.pc = "returned", !.result = value]

\* the call has thrown to the caller of summarizeInStages
Throw(s, err) == [s EXCEPT !.pc = "thrown", !.error = err]

\* one summarizeWithFallback invocation has ended: what it was given and
\* how it ended
LadderEnded(s, outcome, value) ==
    [s EXCEPT !.ladders = Append(@, [messages |-> s.fb.messages,
                                      phase |-> s.fb.phase,
                                      oversizedNotes |-> s.fb.notes,
                                      outcome |-> outcome,
                                      value |-> value])]

NewLadder(messages, previousSummary, instructions) ==
    [messages |-> messages, previousSummary |-> previousSummary,
     instructions |-> instructions, phase |-> "full", notes |-> <<>>]

\* summarizeWithFallback up to its first await; the lists it is given here
\* (the params' messages, a split, the partial summaries) are never empty
StartFallback(s, messages, previousSummary, instructions) ==
    StartChunks([s EXCEPT !.fb = NewLadder(messages, previousSummary, instructions)],
                messages)

\* summarizeInStages after a summarizeWithFallback call has returned
StageContinue(s, value) ==
    IF s.stage = "part"
    THEN LET partials == Append(s.partials, value)
             s1 == [s EXCEPT !.partials = partials]
         IN  IF Len(partials) < Len(s.splits)
             THEN StartFallback(s1, s.splits[Len(partials) + 1], Undefined,
                                sumParams.customInstructions)
             ELSE IF Len(partials) = 1
             THEN Finish(s1, partials[1])
             ELSE StartFallback([s1 EXCEPT !.stage = "merge"],
                                [k \in 1..Len(partials) |-> SummaryMessage(k, partials[k])],
                                sumParams.previousSummary,
                                "merge")
    ELSE Finish(s, value)

FallbackReturned(s, value) == StageContinue(LadderEnded(s, "returned", value), value)

FallbackThrew(s, err) ==
    Throw(LadderEnded(s, IF err = SummaryUnavailable THEN "unavailable" ELSE "aborted",
                      Undefined),
          err)

\* a plausible slip: the summary is not rolled forward
nextPriorStale(summary, reply) == summary

\* summary = await generateSummary(..., summary)
nextPrior(summary, reply) == reply

\* the replies of generateSummary, each with the state of the signal when
\* it arrived
Logged(s, reply) ==
    [s EXCEPT !.replies = Append(@, [value |-> reply, aborted |-> signalAborted])]

\* the loop of summarizeChunks after generateSummary has returned
ChunkReturned(s, reply) ==
    LET s1 == [Logged(s, reply) EXCEPT !.summary = nextPrior(s.summary, reply),
                                       !.chunks = Tail(@)]
        value == OrElse(s1.summary, DEFAULT_SUMMARY_FALLBACK)
    IN  IF Len(s1.chunks) > 0 THEN IssueCall(s1)
        ELSE IF s.fb.phase = "full" THEN FallbackReturned(s1, value)
        ELSE FallbackReturned(s1, WithNotes(value, s.fb.notes))

smallMessages(messages) ==
    SelectSeq(messages, LAMBDA m : ~isOversizedForSummary(m, sumParams.contextWindow))

oversizedNotes(messages) ==
    Ids(SelectSeq(messages, LAMBDA m : isOversizedForSummary(m, sumParams.contextWindow)))

\* a plausible slip: a final fallback returns a stock text after both
\* passes have failed
partialFailedReturnsStock(s) == FallbackReturned(s, DEFAULT_SUMMARY_FALLBACK)

\* "Refuse to produce a low-information summary that would truncate history."
partialFailed(s) == FallbackThrew(s, SummaryUnavailable)

\* the catch blocks of summarizeWithFallback after generateSummary has thrown
ChunkThrew(s, err, aborted) ==
    LET s1 == Logged(s, err)
        small == smallMessages(s.fb.messages)
        s2 == [s1 EXCEPT !.fb.phase = "partial",
                         !.fb.notes = oversizedNotes(s.fb.messages)]
    IN  IF isAbortError(err, aborted) THEN FallbackThrew(s1, err)
        ELSE IF s.fb.phase = "full"
        THEN IF Len(small) > 0 THEN StartChunks(s2, small)
             ELSE partialFailed(s2)
        ELSE partialFailed(s1)

\* summarizeInStages from its entry to its first await
summarizeInStages(s) ==
    LET messages == sumParams.messages
        minMessagesForSplit == Max(2, sumParams.minMessagesForSplit)
        parts == normalizeParts(sumParams.parts, Len(messages))
        totalTokens == estimateMessagesTokens(messages)
        splits == SelectSeq(splitMessagesByTokenShare(messages, parts),
                            LAMBDA chunk : Len(chunk) > 0)
        direct == StartFallback([s EXCEPT !.stage = "direct"], messages,
                                sumParams.previousSummary, sumParams.customInstructions)
    IN  IF Len(messages) = 0
        THEN Finish(s, OrElse(sumParams.previousSummary, DEFAULT_SUMMARY_FALLBACK))
        ELSE IF parts <= 1 \/ Len(messages) < minMessagesForSplit
                \/ totalTokens <= sumParams.maxChunkTokens
        THEN direct
        ELSE IF Len(splits) <= 1 THEN direct
        ELSE StartFallback([s EXCEPT !.stage = "part", !.splits = splits],
                           splits[1], Undefined, sumParams.customInstructions)

(***************************************************************************)
(* The summarizer's specification.                                         *)
(***************************************************************************)
MaxSumMessages == 3

\* the context window of the model: a message of 3 tokens is oversized for
\* it (3 * 1.2 > 5 * 0.5), a message of 1 or 2 tokens is not
ContextWindow == 5

SumTokenSizes == {1, 3}

SumHistories ==
    UNION {{[k \in 1..n |-> SumMsg(k, f[k])] : f \in [1..n -> SumTokenSizes]}
           : n \in 0..MaxSumMessages}

SumParamsSet ==
    [messages : SumHistories,
     previousSummary : {Undefined, CallerSummary},
     parts : {1, DEFAULT_PARTS},
     minMessagesForSplit : {2, DefaultMinMessagesForSplit},
     maxChunkTokens : {2, 4},
     contextWindow : {ContextWindow},
     customInstructions : {"none"}]

SummarizerInit ==
    /\ sumParams \in SumParamsSet
    /\ summarizer = IdleSummarizer
    /\ signalAborted = FALSE
    /\ history = <<>>
    /\ pruned = NoResult
    /\ prunedBefore = NoResult
    /\ sessionFile = <<>>
    /\ rewriter = NoResult
    /\ compactor = NoResult
    /\ sessionLock = "free"
    /\ numeric = NoResult
    /\ embedded = NoResult
    /\ guard = NoResult
    /\ compactions = NoResult
    /\ telegram = NoResult
    /\ clamp = NoResult
    /\ capper = NoResult

\* the caller invokes summarizeInStages
SummarizeInStages ==
    /\ summarizer.pc = "idle"
    /\ summarizer' = summarizeInStages(summarizer)
    /\ UNCHANGED <<sumParams, signalAborted, prunerVars, rewriterVars, pureVars, numeric, embedded, laterVars>>

\* the call in flight returns a summary whose text is estimated at `tokens`
GenerateSummaryReturns(tokens) ==
    /\ summarizer.pc = "awaiting"
    /\ LET n == Len(summarizer.calls)
           call == summarizer.calls[n]
           reply == Summary(n, Covers(call.prior) \o call.chunk, Notes(call.prior), tokens)
       IN  summarizer' = ChunkReturned(summarizer, reply)
    /\ UNCHANGED <<sumParams, signalAborted, prunerVars, rewriterVars, pureVars, numeric, embedded, laterVars>>

\* the call in flight throws an error of the given name
GenerateSummaryThrows(name) ==
    /\ summarizer.pc = "awaiting"
    /\ summarizer' = ChunkThrew(summarizer, Err(name, Len(summarizer.calls)), signalAborted)
    /\ UNCHANGED <<sumParams, signalAborted, prunerVars, rewriterVars, pureVars, numeric, embedded, laterVars>>

\* the caller aborts the signal
Abort ==
    /\ summarizer.pc = "awaiting"
    /\ ~signalAborted
    /\ signalAborted' = TRUE
    /\ UNCHANGED <<sumParams, summarizer, prunerVars, rewriterVars, pureVars, numeric, embedded, laterVars>>

SummarizerNext ==
    \/ SummarizeInStages
    \/ \E tokens \in SumTokenSizes : GenerateSummaryReturns(tokens)
    \/ \E name \in {"Error", "AbortError"} : GenerateSummaryThrows(name)
    \/ Abort

SummarizerSpec == SummarizerInit /\ [][SummarizerNext]_vars

(***************************************************************************)
(* Tool-result texts.  A text is a single line of `body` ASCII characters  *)
(* followed by `tails`: each element p of tails is the first p UTF-16      *)
(* units of "\n" + TRUNCATION_SUFFIX (216 units, 220 bytes: the newline,   *)
(* the two 3-byte units of the warning sign, then ASCII).  Every text the  *)
(* truncation makes of a single-line ASCII text has this form.             *)
(***************************************************************************)
TOOL_OUTPUT_HARD_MAX_BYTES == 51200

TOOL_OUTPUT_HARD_MAX_LINES == 2000

HARD_MAX_TOOL_RESULT_CHARS == 400000

MIN_KEEP_CHARS == 2000

\* `\n${TRUNCATION_SUFFIX}`.length
SuffixTextChars == 216

\* Buffer.byteLength(`\n${TRUNCATION_SUFFIX}`, "utf8")
SuffixTextBytes == 220

Text(body, tails) == [body |-> body, tails |-> tails]

RECURSIVE SumSeq(_)
SumSeq(seq) == IF seq = <<>> THEN 0 ELSE Head(seq) + SumSeq(Tail(seq))

\* the UTF-8 bytes of the first p units of "\n" + TRUNCATION_SUFFIX
TailBytes(p) == IF p <= 1 THEN p ELSE IF p = 2 THEN 4 ELSE p + 4

\* the longest prefix of "\n" + TRUNCATION_SUFFIX, of at most p units, that
\* fits in `limit` bytes
TailFit(p, limit) ==
    IF limit >= 7 THEN Min(p, limit - 4)
    ELSE IF limit >= 4 THEN Min(p, 2)
    ELSE IF limit >= 1 THEN Min(p, 1)
    ELSE 0

TextLength(text) == text.body + SumSeq(text.tails)

byteLength(text) ==
    text.body + SumSeq([k \in 1..Len(text.tails) |-> TailBytes(text.tails[k])])

countLines(text) ==
    IF TextLength(text) = 0 THEN 0 ELSE 1 + Len(text.tails)

\* the tails of text.slice(0, n - text.body), for n beyond the body
RECURSIVE sliceTails(_, _)
sliceTails(tails, n) ==
    IF tails = <<>> \/ n <= 0 THEN <<>>
    ELSE IF Head(tails) <= n THEN <<Head(tails)>> \o sliceTails(Tail(tails), n - Head(tails))
    ELSE <<n>>

\* text.slice(0, n)
sliceText(text, n) ==
    IF n <= text.body THEN Text(Max(0, n), <<>>)
    ELSE Text(text.body, sliceTails(text.tails, n - text.body))

\* text.lastIndexOf("\n", from): the newlines are the first units of the tails
RECURSIVE lastNewlineFrom(_, _, _, _)
lastNewlineFrom(tails, position, from, found) ==
    IF tails = <<>> \/ position > from THEN found
    ELSE lastNewlineFrom(Tail(tails), position + Head(tails), from, position)

lastIndexOfNewline(text, from) == lastNewlineFrom(text.tails, text.body, from, -1)

\* text + `\n${suffix}`
appendSuffix(text) == Text(text.body, Append(text.tails, SuffixTextChars))

sliceToMaxLines(text, maxLines) ==
    LET limit == Max(0, maxLines) IN
    IF TextLength(text) = 0 THEN text
    ELSE IF limit <= 0 THEN Text(0, <<>>)
    ELSE IF countLines(text) <= limit THEN text
    ELSE Text(text.body, SubSeq(text.tails, 1, limit - 1))

RECURSIVE fitTails(_, _)
fitTails(tails, limit) ==
    IF tails = <<>> THEN <<>>
    ELSE IF TailBytes(Head(tails)) <= limit
    THEN <<Head(tails)>> \o fitTails(Tail(tails), limit - TailBytes(Head(tails)))
    ELSE IF TailFit(Head(tails), limit) > 0 THEN <<TailFit(Head(tails), limit)>>
    ELSE <<>>

\* the longest prefix that fits in maxBytes; the texts hold no surrogate
\* pair, so every UTF-16 offset is a safe cut
sliceToMaxUtf8Bytes(text, maxBytes) ==
    LET limit == Max(0, maxBytes) IN
    IF TextLength(text) = 0 THEN text
    ELSE IF byteLength(text) <= limit THEN text
    ELSE IF limit <= 0 THEN Text(0, <<>>)
    ELSE IF text.body >= limit THEN Text(limit, <<>>)
    ELSE Text(text.body, fitTails(text.tails, limit - text.body))

\* hardTruncateText(text, {maxBytes, maxLines, suffix: TRUNCATION_SUFFIX}).text;
\* the trimmed text is never empty here, so the marker goes on a new line
hardTruncateText(text, maxBytes, maxLines) ==
    LET withinLines == countLines(text) <= maxLines
        withinBytes == byteLength(text) <= maxBytes
        availableBytes == Max(0, maxBytes - SuffixTextBytes)
        availableLines == Max(0, maxLines - 1)
        trimmed == sliceToMaxUtf8Bytes(sliceToMaxLines(text, availableLines),
                                       availableBytes)
    IN  IF withinLines /\ withinBytes THEN text ELSE appendSuffix(trimmed)

truncateToolResultText(text, maxChars) ==
    LET withinChars == TextLength(text) <= maxChars
        keepChars == Max(MIN_KEEP_CHARS, maxChars - SuffixTextChars)
        lastNewline == lastIndexOfNewline(text, keepChars)
        cutPoint == IF lastNewline * 10 > keepChars * 8 THEN lastNewline ELSE keepChars
        out == IF withinChars THEN text ELSE appendSuffix(sliceText(text, cutPoint))
    IN  hardTruncateText(out, TOOL_OUTPUT_HARD_MAX_BYTES, TOOL_OUTPUT_HARD_MAX_LINES)

\* min(floor(contextWindowTokens * 0.3) * 4, HARD_MAX_TOOL_RESULT_CHARS)
calculateMaxToolResultChars(contextWindowTokens) ==
    Min(((contextWindowTokens * 3) \div 10) * 4, HARD_MAX_TOOL_RESULT_CHARS)

(***************************************************************************)
(* The session log.  sessionFile is the append-only file of entries; an    *)
(* entry's id is its position in the file and parentId 0 is the null       *)
(* parent of a root.  Each open SessionManager keeps its own leaf in       *)
(* memory: opening puts the leaf at the last entry of the file, and the    *)
(* active branch is the path from the leaf to a root.  `value` stands for  *)
(* the payload an entry carries besides its text: the label of a label     *)
(* entry, the name of a session_info entry, the summary of a               *)
(* branch_summary, the settings of the others.                             *)
(***************************************************************************)
Payload(type, role, text, value) ==
    [type |-> type, role |-> role, text |-> text, value |-> value]

Stored(id, parentId, payload) ==
    [id |-> id, parentId |-> parentId, type |-> payload.type,
     role |-> payload.role, text |-> payload.text, value |-> payload.value]

PayloadOf(entry) == Payload(entry.type, entry.role, entry.text, entry.value)

NoText == Text(0, <<>>)

\* SessionManager.open: the leaf is the last entry of the file
openLeaf(file) == Len(file)

RECURSIVE getBranch(_, _)
getBranch(file, leafId) ==
    IF leafId = 0 THEN <<>>
    ELSE Append(getBranch(file, file[leafId].parentId), file[leafId])

\* every append* of the SessionManager: a child of the leaf, which becomes
\* the leaf
appendEntry(m, payload) ==
    LET id == Len(m.file) + 1 IN
    [m EXCEPT !.file = Append(m.file, Stored(id, m.leafId, payload)),
              !.leafId = id]

\* branchWithSummary(null, ...): the leaf goes to the null parent, and the
\* branch_summary entry is appended there
branchWithSummary(m, payload) == appendEntry([m EXCEPT !.leafId = 0], payload)

getToolResultTextLength(entry) == TextLength(entry.text)

isOversizedEntryCharsOnly(entry, maxChars) ==
    /\ entry.type = "message"
    /\ entry.role = "toolResult"
    /\ getToolResultTextLength(entry) > maxChars

isOversizedEntry(entry, maxChars) ==
    /\ entry.type = "message"
    /\ entry.role = "toolResult"
    /\ \/ getToolResultTextLength(entry) > maxChars
       \/ byteLength(entry.text) > TOOL_OUTPUT_HARD_MAX_BYTES
       \/ countLines(entry.text) > TOOL_OUTPUT_HARD_MAX_LINES

oversizedIndices(branch, maxChars) ==
    {i \in 1..Len(branch) : isOversizedEntry(branch[i], maxChars)}

truncateToolResultMessage(payload, maxChars) ==
    IF TextLength(payload.text) = 0 THEN payload
    ELSE [payload EXCEPT !.text = truncateToolResultText(payload.text, maxChars)]

PlainlyAppended ==
    {"compaction", "thinking_level_change", "model_change", "custom",
     "custom_message"}

\* whether the replay of this entry calls the SessionManager
replayWrites(entry) ==
    \/ entry.type = "message"
    \/ entry.type \in PlainlyAppended
    \/ entry.type = "branch_summary"
    \/ entry.type \in {"label", "session_info"} /\ entry.value # ""

\* one pass of the re-append loop; m holds the manager's file and leaf and
\* the running truncatedCount
replayEntry(m, entry, oversized, maxChars) ==
    IF entry.type = "message" THEN
        IF oversized
        THEN [appendEntry(m, truncateToolResultMessage(PayloadOf(entry), maxChars))
                 EXCEPT !.truncatedCount = m.truncatedCount + 1]
        ELSE appendEntry(m, PayloadOf(entry))
    ELSE IF entry.type \in PlainlyAppended THEN appendEntry(m, PayloadOf(entry))
    ELSE IF entry.type = "branch_summary" THEN branchWithSummary(m, PayloadOf(entry))
    ELSE IF entry.type \in {"label", "session_info"}
    THEN IF entry.value # "" THEN appendEntry(m, PayloadOf(entry)) ELSE m
    ELSE m

\* the catch clause: a thrown failure becomes a result
caughtRethrown(errMsg) == [threw |-> errMsg]

caught(errMsg) == [truncated |-> FALSE, truncatedCount |-> 0, reason |-> errMsg]

(***************************************************************************)
(* truncateOversizedToolResultsInSession as a process.  Its body is        *)
(* synchronous, so within its own process nothing interleaves; what can    *)
(* interleave is another process working on the same file.  Each step      *)
(* below is one access to the file: the open (with the scan and the move   *)
(* of the leaf, which are in memory), then one pass of the re-append loop  *)
(* per step.  The function takes no lock.                                  *)
(***************************************************************************)
MaxEntries == 3

BigText == Text(600000, <<>>)

SmallText == Text(5, <<>>)

\* within maxChars of a 128000-token window, beyond the hard byte cap
MidText == Text(60000, <<>>)

EntryKinds ==
    {Payload("message", "user", SmallText, ""),
     Payload("message", "toolResult", SmallText, ""),
     Payload("message", "toolResult", BigText, ""),
     Payload("message", "toolResult", MidText, ""),
     Payload("model_change", "", NoText, "model"),
     Payload("thinking_level_change", "", NoText, "high"),
     Payload("custom", "", NoText, "data"),
     Payload("branch_summary", "", NoText, "summary"),
     Payload("label", "", NoText, "pinned"),
     Payload("label", "", NoText, ""),
     Payload("session_info", "", NoText, "name"),
     Payload("session_info", "", NoText, ""),
     Payload("compaction", "", NoText, "compacted"),
     Payload("custom_message", "", NoText, "note")}

ContextWindowTokens == {1000, 128000}

\* a session written one entry after the other
LinearFile(payloads) == [k \in 1..Len(payloads) |-> Stored(k, k - 1, payloads[k])]

IdleRewriter ==
    [pc |-> "idle", branch |-> <<>>, oversized |-> {}, maxChars |-> 0, i |-> 0,
     leafId |-> 0, truncatedCount |-> 0, failure |-> "none", result |-> NoResult]

IdleCompactor == [pc |-> "idle", leafId |-> 0]

RewriterInit ==
    /\ sessionFile \in {LinearFile(payloads) : payloads \in SeqsUpTo(EntryKinds, MaxEntries)}
    /\ rewriter = IdleRewriter
    /\ compactor = IdleCompactor
    /\ sessionLock = "free"
    /\ numeric = NoResult
    /\ embedded = NoResult
    /\ guard = NoResult
    /\ compactions = NoResult
    /\ telegram = NoResult
    /\ clamp = NoResult
    /\ capper = NoResult
    /\ history = <<>>
    /\ pruned = NoResult
    /\ prunedBefore = NoResult
    /\ sumParams = NoResult
    /\ summarizer = NoResult
    /\ signalAborted = FALSE

Returned(r, result) == [r EXCEPT !.pc = "done", !.result = result]

Failed(r, errMsg) ==
    [r EXCEPT !.pc = "done", !.failure = errMsg, !.result = caught(errMsg)]

\* lines 196-246: open, read the branch, scan it, move the leaf
truncateOversizedToolResultsInSession(r, file, contextWindowTokens) ==
    LET maxChars == calculateMaxToolResultChars(contextWindowTokens)
        leaf == openLeaf(file)
        branch == getBranch(file, leaf)
        oversized == oversizedIndices(branch, maxChars)
        firstOversizedIdx == CHOOSE i \in oversized : \A j \in oversized : i <= j
    IN  IF branch = <<>>
        THEN Returned(r, [truncated |-> FALSE, truncatedCount |-> 0,
                          reason |-> "empty session"])
        ELSE IF oversized = {}
        THEN Returned(r, [truncated |-> FALSE, truncatedCount |-> 0,
                          reason |-> "no oversized tool results"])
        ELSE [r EXCEPT !.pc = "replaying", !.branch = branch,
                       !.oversized = oversized, !.maxChars = maxChars,
                       !.i = firstOversizedIdx,
                       !.leafId = branch[firstOversizedIdx].parentId]

RewriterOpen ==
    /\ rewriter.pc = "idle"
    /\ \E contextWindowTokens \in ContextWindowTokens :
          rewriter' = truncateOversizedToolResultsInSession(rewriter, sessionFile,
                                                            contextWindowTokens)
    /\ UNCHANGED <<sessionFile, compactor, sessionLock, prunerVars, summarizerVars, pureVars, numeric, embedded, laterVars>>

\* SessionManager.open or getBranch throws
RewriterOpenFails ==
    /\ rewriter.pc = "idle"
    /\ rewriter' = Failed(rewriter, "open failed")
    /\ UNCHANGED <<sessionFile, compactor, sessionLock, prunerVars, summarizerVars, pureVars, numeric, embedded, laterVars>>

\* lines 253-317: one pass of the loop, and the return after the last
RewriterReplay ==
    /\ rewriter.pc = "replaying"
    /\ LET m == replayEntry([file |-> sessionFile, leafId |-> rewriter.leafId,
                             truncatedCount |-> rewriter.truncatedCount],
                            rewriter.branch[rewriter.i],
                            rewriter.i \in rewriter.oversized, rewriter.maxChars)
           next == [rewriter EXCEPT !.i = rewriter.i + 1, !.leafId = m.leafId,
                                    !.truncatedCount = m.truncatedCount]
       IN  /\ sessionFile' = m.file
           /\ rewriter' = IF rewriter.i < Len(rewriter.branch) THEN next
                          ELSE Returned(next, [truncated |-> TRUE,
                                               truncatedCount |-> m.truncatedCount])
    /\ UNCHANGED <<compactor, sessionLock, prunerVars, summarizerVars, pureVars, numeric, embedded, laterVars>>

\* the SessionManager call of this pass throws: branch or resetLeaf before
\* the first pass, an append in any pass
RewriterReplayFails ==
    /\ rewriter.pc = "replaying"
    /\ \E errMsg \in {"branch failed", "append failed"} :
          /\ errMsg = "branch failed" => rewriter.i = CHOOSE i \in rewriter.oversized :
                                             \A j \in rewriter.oversized : i <= j
          /\ errMsg = "append failed" => replayWrites(rewriter.branch[rewriter.i])
          /\ rewriter' = Failed(rewriter, errMsg)
    /\ UNCHANGED <<sessionFile, compactor, sessionLock, prunerVars, summarizerVars, pureVars, numeric, embedded, laterVars>>

(***************************************************************************)
(* compactEmbeddedPiSessionDirect in another process: it takes the session *)
(* write lock, opens the file, appends its compaction entry and releases   *)
(* the lock.                                                               *)
(***************************************************************************)
CompactorAcquire ==
    /\ compactor.pc = "idle"
    /\ sessionLock = "free"
    /\ sessionLock' = "compactor"
    /\ compactor' = [compactor EXCEPT !.pc = "locked"]
    /\ UNCHANGED <<sessionFile, rewriter, prunerVars, summarizerVars, pureVars, numeric, embedded, laterVars>>

CompactorOpen ==
    /\ compactor.pc = "locked"
    /\ compactor' = [compactor EXCEPT !.pc = "opened", !.leafId = openLeaf(sessionFile)]
    /\ UNCHANGED <<sessionFile, rewriter, sessionLock, prunerVars, summarizerVars, pureVars, numeric, embedded, laterVars>>

CompactorCompact ==
    /\ compactor.pc = "opened"
    /\ LET m == appendEntry([file |-> sessionFile, leafId |-> compactor.leafId],
                            Payload("compaction", "", NoText, "compacted"))
       IN  /\ sessionFile' = m.file
           /\ compactor' = [compactor EXCEPT !.pc = "compacted", !.leafId = m.leafId]
    /\ UNCHANGED <<rewriter, sessionLock, prunerVars, summarizerVars, pureVars, numeric, embedded, laterVars>>

CompactorRelease ==
    /\ compactor.pc = "compacted"
    /\ sessionLock' = "free"
    /\ compactor' = [compactor EXCEPT !.pc = "released"]
    /\ UNCHANGED <<sessionFile, rewriter, prunerVars, summarizerVars, pureVars, numeric, embedded, laterVars>>

RewriterNext ==
    \/ RewriterOpen
    \/ RewriterOpenFails
    \/ RewriterReplay
    \/ RewriterReplayFails
    \/ CompactorAcquire
    \/ CompactorOpen
    \/ CompactorCompact
    \/ CompactorRelease

RewriterSpec == RewriterInit /\ [][RewriterNext]_vars

(***************************************************************************)
(* hardTruncateText on arbitrary strings and limits.  A string is a        *)
(* sequence of UTF-16 code units: "a" an ASCII character, "n" the newline, *)
(* "w" a unit of the basic plane that takes 3 bytes of UTF-8, "H" a high   *)
(* and "L" a low surrogate.  A high surrogate followed by a low one is one *)
(* character of 4 bytes; a surrogate on its own is encoded as the 3 bytes  *)
(* of U+FFFD.  The operators above work on the texts of the rewriter; the  *)
(* ones here are the same functions unit by unit, and carry the suffix     *)
(* Units in their names.                                                   *)
(***************************************************************************)
CodeUnits == {"a", "n", "w", "H", "L"}

IsPairAt(text, i) ==
    /\ i >= 1
    /\ i < Len(text)
    /\ text[i] = "H"
    /\ text[i + 1] = "L"

\* Buffer.byteLength(text, "utf8")
RECURSIVE byteLengthUnits(_)
byteLengthUnits(text) ==
    IF text = <<>> THEN 0
    ELSE IF IsPairAt(text, 1) THEN 4 + byteLengthUnits(SubSeq(text, 3, Len(text)))
    ELSE (IF Head(text) \in {"a", "n"} THEN 1 ELSE 3) + byteLengthUnits(Tail(text))

countLinesUnits(text) ==
    IF text = <<>> THEN 0
    ELSE 1 + Cardinality({i \in 1..Len(text) : text[i] = "n"})

\* truncateUtf16Safe(text, maxLen): the prefix of maxLen units, one unit
\* shorter where the cut would fall inside a surrogate pair
truncateUtf16Safe(text, maxLen) ==
    LET limit == Max(0, maxLen) IN
    IF Len(text) <= limit THEN text
    ELSE IF IsPairAt(text, limit) THEN SubSeq(text, 1, limit - 1)
    ELSE SubSeq(text, 1, limit)

sliceToMaxLinesUnits(text, maxLines) ==
    LET limit == Max(0, maxLines)
        newlines == {i \in 1..Len(text) : text[i] = "n"}
        next == CHOOSE p \in newlines : Cardinality({q \in newlines : q <= p}) = limit
    IN  IF text = <<>> THEN text
        ELSE IF limit <= 0 THEN <<>>
        ELSE IF countLinesUnits(text) <= limit THEN text
        ELSE SubSeq(text, 1, next - 1)

\* the binary search for the longest safe prefix that fits
RECURSIVE longestFit(_, _, _, _)
longestFit(text, lo, hi, limit) ==
    IF lo >= hi THEN lo
    ELSE LET mid == (lo + hi + 1) \div 2 IN
         IF byteLengthUnits(truncateUtf16Safe(text, mid)) <= limit
         THEN longestFit(text, mid, hi, limit)
         ELSE longestFit(text, lo, mid - 1, limit)

sliceToMaxUtf8BytesUnits(text, maxBytes) ==
    LET limit == Max(0, maxBytes) IN
    IF text = <<>> THEN text
    ELSE IF byteLengthUnits(text) <= limit THEN text
    ELSE IF limit <= 0 THEN <<>>
    ELSE truncateUtf16Safe(text, longestFit(text, 0, Len(text), limit))

\* the marker goes after the kept text on a new line, or alone where
\* nothing is kept
marker(trimmed, suffix) == IF trimmed # <<>> THEN <<"n">> \o suffix ELSE suffix

\* the bytes kept free for the marker
reserveNothing(maxBytes, suffix) == Max(0, maxBytes)

reserveBytes(maxBytes, suffix) ==
    Max(0, maxBytes - byteLengthUnits(<<"n">> \o suffix))

hardTruncateTextUnits(text, maxBytes, maxLines, suffix) ==
    LET withinLines == countLinesUnits(text) <= maxLines
        withinBytes == byteLengthUnits(text) <= maxBytes
        availableBytes == reserveBytes(maxBytes, suffix)
        availableLines == Max(0, maxLines - countLinesUnits(suffix))
        trimmed == sliceToMaxUtf8BytesUnits(sliceToMaxLinesUnits(text, availableLines),
                                            availableBytes)
    IN  IF withinLines /\ withinBytes
        THEN [text |-> text, truncated |-> FALSE]
        ELSE [text |-> trimmed \o marker(trimmed, suffix), truncated |-> TRUE]

MaxTextLen == 4

ByteLimits == 0..7

LineLimits == 0..3

\* opts.suffix: a marker of one line and one of two
Suffixes == {<<"a">>, <<"w", "n", "a">>}

ClampInit ==
    /\ clamp \in [text : SeqsUpTo(CodeUnits, MaxTextLen), maxBytes : ByteLimits,
                  maxLines : LineLimits, suffix : Suffixes,
                  out : {NoResult}, again : {NoResult}]
    /\ capper = NoResult
    /\ sessionFile = <<>>
    /\ rewriter = NoResult
    /\ compactor = NoResult
    /\ sessionLock = "free"
    /\ numeric = NoResult
    /\ embedded = NoResult
    /\ guard = NoResult
    /\ compactions = NoResult
    /\ telegram = NoResult
    /\ history = <<>>
    /\ pruned = NoResult
    /\ prunedBefore = NoResult
    /\ sumParams = NoResult
    /\ summarizer = NoResult
    /\ signalAborted = FALSE

HardTruncateText ==
    /\ clamp.out = NoResult
    /\ clamp' = [clamp EXCEPT !.out = hardTruncateTextUnits(clamp.text, clamp.maxBytes,
                                                           clamp.maxLines, clamp.suffix)]
    /\ UNCHANGED <<capper, prunerVars, summarizerVars, rewriterVars, numeric, embedded, laterVars>>

\* the same call on the text the first one returned
HardTruncateTextAgain ==
    /\ clamp.out # NoResult
    /\ clamp.again = NoResult
    /\ clamp' = [clamp EXCEPT !.again = hardTruncateTextUnits(clamp.out.text, clamp.maxBytes,
                                                             clamp.maxLines, clamp.suffix)]
    /\ UNCHANGED <<capper, prunerVars, summarizerVars, rewriterVars, numeric, embedded, laterVars>>

ClampNext ==
    \/ HardTruncateText
    \/ HardTruncateTextAgain

ClampSpec == ClampInit /\ [][ClampNext]_vars

(***************************************************************************)
(* Strings of hardCapToolOutput, at their true sizes.  A string is a       *)
(* sequence of runs [c, n]: n units of class "a" (an ASCII character that  *)
(* JSON leaves alone), "q" (a quote or a backslash, which JSON escapes     *)
(* with a backslash), "n" (a newline, which JSON writes as backslash and   *)
(* n) or "w" (a unit of 3 bytes that JSON leaves alone).  The operators    *)
(* carry Runs in their names.                                              *)
(***************************************************************************)
Run(c, n) == [c |-> c, n |-> n]

unitBytes(c) == IF c = "w" THEN 3 ELSE 1

RECURSIVE byteLengthRuns(_)
byteLengthRuns(runs) ==
    IF runs = <<>> THEN 0
    ELSE unitBytes(Head(runs).c) * Head(runs).n + byteLengthRuns(Tail(runs))

RECURSIVE lengthRuns(_)
lengthRuns(runs) ==
    IF runs = <<>> THEN 0 ELSE Head(runs).n + lengthRuns(Tail(runs))

RECURSIVE newlinesRuns(_)
newlinesRuns(runs) ==
    IF runs = <<>> THEN 0
    ELSE (IF Head(runs).c = "n" THEN Head(runs).n ELSE 0) + newlinesRuns(Tail(runs))

countLinesRuns(runs) == IF lengthRuns(runs) = 0 THEN 0 ELSE 1 + newlinesRuns(runs)

\* the runs without the empty ones
RECURSIVE compactRuns(_)
compactRuns(runs) ==
    IF runs = <<>> THEN <<>>
    ELSE IF Head(runs).n <= 0 THEN compactRuns(Tail(runs))
    ELSE <<Head(runs)>> \o compactRuns(Tail(runs))

\* the text before its limit-th newline
RECURSIVE beforeNewline(_, _)
beforeNewline(runs, limit) ==
    IF runs = <<>> THEN <<>>
    ELSE IF Head(runs).c # "n" THEN <<Head(runs)>> \o beforeNewline(Tail(runs), limit)
    ELSE IF Head(runs).n < limit
    THEN <<Head(runs)>> \o beforeNewline(Tail(runs), limit - Head(runs).n)
    ELSE <<Run("n", limit - 1)>>

sliceToMaxLinesRuns(runs, maxLines) ==
    LET limit == Max(0, maxLines) IN
    IF lengthRuns(runs) = 0 THEN runs
    ELSE IF limit <= 0 THEN <<>>
    ELSE IF countLinesRuns(runs) <= limit THEN runs
    ELSE compactRuns(beforeNewline(runs, limit))

\* the longest prefix of at most limit bytes; the strings hold no surrogate
RECURSIVE fitRuns(_, _)
fitRuns(runs, limit) ==
    IF runs = <<>> THEN <<>>
    ELSE LET b == unitBytes(Head(runs).c) IN
         IF b * Head(runs).n <= limit
         THEN <<Head(runs)>> \o fitRuns(Tail(runs), limit - b * Head(runs).n)
         ELSE <<Run(Head(runs).c, limit \div b)>>

sliceToMaxUtf8BytesRuns(runs, maxBytes) ==
    LET limit == Max(0, maxBytes) IN
    IF lengthRuns(runs) = 0 THEN runs
    ELSE IF byteLengthRuns(runs) <= limit THEN runs
    ELSE IF limit <= 0 THEN <<>>
    ELSE compactRuns(fitRuns(runs, limit))

\* DEFAULT_TRUNCATION_SUFFIX: the warning sign and its variation selector,
\* then 125 ASCII characters
DEFAULT_TRUNCATION_SUFFIX == <<Run("w", 2), Run("a", 125)>>

hardTruncateTextRuns(runs, maxBytes, maxLines) ==
    LET suffix == DEFAULT_TRUNCATION_SUFFIX
        withinLines == countLinesRuns(runs) <= maxLines
        withinBytes == byteLengthRuns(runs) <= maxBytes
        suffixBytes == byteLengthRuns(<<Run("n", 1)>> \o suffix)
        availableBytes == Max(0, maxBytes - suffixBytes)
        availableLines == Max(0, maxLines - countLinesRuns(suffix))
        trimmed == sliceToMaxUtf8BytesRuns(sliceToMaxLinesRuns(runs, availableLines),
                                           availableBytes)
    IN  IF withinLines /\ withinBytes THEN runs
        ELSE IF trimmed # <<>> THEN trimmed \o <<Run("n", 1)>> \o suffix
        ELSE suffix

\* what JSON.stringify writes between the quotes of a string
RECURSIVE escapeRuns(_)
escapeRuns(runs) ==
    IF runs = <<>> THEN <<>>
    ELSE LET r == Head(runs) IN
         (IF r.c = "q" THEN <<Run("q", 2 * r.n)>>
          ELSE IF r.c = "n"
          THEN IF r.n <= 0 THEN <<>>
               ELSE <<Run("q", 1), Run("a", 1)>> \o escapeRuns(<<Run("n", r.n - 1)>>)
          ELSE <<r>>)
         \o escapeRuns(Tail(runs))

\* JSON.stringify of a string
quoteRuns(runs) == <<Run("q", 1)>> \o escapeRuns(runs) \o <<Run("q", 1)>>

\* the decimal digits of a number
RECURSIVE digits(_)
digits(k) == IF k < 10 THEN 1 ELSE 1 + digits(k \div 10)

(***************************************************************************)
(* Payloads of hardCapToolOutput.  A value is a string, a literal (a       *)
(* number or a boolean, of so many characters), a bigint, or a container.  *)
(* A container is an array or an object with items [v, n]: the value v     *)
(* n times over (n > 1 only for literals in arrays), under a key of k      *)
(* letters where the container is an object.  Ref(id) is the container heap[id], with its      *)
(* identity; Inline(node) is a container made during the walk, which no    *)
(* other value refers to.  An object with `trap` has a getter that throws  *)
(* when its entries are read.                                              *)
(***************************************************************************)
Str(runs) == [kind |-> "string", runs |-> runs]

Lit(chars) == [kind |-> "literal", chars |-> chars]

BigIntValue == [kind |-> "bigint"]

Ref(id) == [kind |-> "ref", id |-> id]

Inline(node) == [kind |-> "inline", node |-> node]

Item(v, n) == [v |-> v, n |-> n, k |-> 1]

Keyed(k, v) == [v |-> v, n |-> 1, k |-> k]

Node(kind, items, trap) == [kind |-> kind, items |-> items, trap |-> trap]

RECURSIVE itemCount(_)
itemCount(items) == IF items = <<>> THEN 0 ELSE Head(items).n + itemCount(Tail(items))

\* the first `count` of the items
RECURSIVE firstItems(_, _)
firstItems(items, count) ==
    IF items = <<>> \/ count <= 0 THEN <<>>
    ELSE IF Head(items).n <= count
    THEN <<Head(items)>> \o firstItems(Tail(items), count - Head(items).n)
    ELSE <<[Head(items) EXCEPT !.n = count]>>

MaxArray == 400

MaxKeys == 400

\* capContainerSize: the container itself where it is small enough, a new
\* container otherwise
capContainerSize(node) ==
    LET length == itemCount(node.items) IN
    IF node.kind = "array" THEN
        IF length <= MaxArray THEN [node |-> node, copied |-> FALSE]
        ELSE [node |-> Node("array",
                            firstItems(node.items, MaxArray)
                                \o <<Item(Inline(Node("object",
                                        <<Keyed(7, Lit(4)),
                                          Keyed(5, Lit(digits(length - MaxArray)))>>,
                                        FALSE)), 1)>>,
                            FALSE),
              copied |-> TRUE]
    ELSE
        IF length <= MaxKeys THEN [node |-> node, copied |-> FALSE]
        ELSE [node |-> Node("object",
                            firstItems(node.items, MaxKeys)
                                \o <<Keyed(12, Lit(digits(length - MaxKeys)))>>,
                            node.trap),
              copied |-> TRUE]

Circular == Str(<<Run("a", 10)>>)

\* `[Array(${input.length})]`
ArrayMarker(length) == Str(<<Run("a", 9 + digits(length))>>)

\* "[Object]"
ObjectMarker == Str(<<Run("a", 8)>>)

\* the walk of hardCapToolOutput.  w carries the seen set, the log of the
\* heap containers the walk went into, and whether a getter threw; the
\* result adds the mapped value.
RECURSIVE walk(_, _, _, _, _, _)
RECURSIVE walkItems(_, _, _, _, _, _)
seenAdd(w, value, copied) ==
    IF value.kind = "ref" /\ ~copied THEN [w EXCEPT !.seen = w.seen \cup {value.id}]
    ELSE w

seenHas(w, value, copied) == value.kind = "ref" /\ ~copied /\ value.id \in w.seen

walk(heap, value, depth, w, maxBytes, maxLines) ==
    IF w.threw THEN [w EXCEPT !.out = value]
    ELSE IF value.kind = "string"
    THEN [w EXCEPT !.out = Str(hardTruncateTextRuns(value.runs, maxBytes, maxLines))]
    ELSE IF value.kind \in {"literal", "bigint"} THEN [w EXCEPT !.out = value]
    ELSE
        LET given == IF value.kind = "ref" THEN heap[value.id] ELSE value.node
            capped == capContainerSize(given)
            input == capped.node
            entered == IF value.kind = "ref"
                       THEN [seenAdd(w, value, capped.copied)
                                EXCEPT !.entered = Append(w.entered, value.id)]
                       ELSE w
        IN  IF seenHas(w, value, capped.copied) THEN [w EXCEPT !.out = Circular]
            ELSE IF depth <= 0
            THEN [entered EXCEPT !.out = IF input.kind = "array"
                                         THEN ArrayMarker(itemCount(input.items))
                                         ELSE ObjectMarker]
            ELSE IF input.trap THEN [entered EXCEPT !.threw = TRUE, !.out = value]
            ELSE LET r == walkItems(heap, input.items, depth - 1,
                                    [entered EXCEPT !.out = <<>>], maxBytes, maxLines)
                 IN  [r EXCEPT !.out = [kind |-> input.kind, items |-> r.out]]

\* the items in their order, one walk for each; w.out collects the results
walkItems(heap, items, depth, w, maxBytes, maxLines) ==
    IF items = <<>> \/ w.threw THEN w
    ELSE LET r == walk(heap, Head(items).v, depth, w, maxBytes, maxLines)
         IN  walkItems(heap, Tail(items), depth,
                       [r EXCEPT !.out = Append(w.out, [Head(items) EXCEPT !.v = r.out])],
                       maxBytes, maxLines)

\* JSON.stringify of a mapped value: its text, or a throw where it holds a
\* bigint
RECURSIVE stringify(_)
RECURSIVE stringifyItems(_, _, _)
stringify(v) ==
    IF v.kind = "string" THEN [ok |-> TRUE, runs |-> quoteRuns(v.runs)]
    ELSE IF v.kind = "literal" THEN [ok |-> TRUE, runs |-> <<Run("a", v.chars)>>]
    ELSE IF v.kind = "bigint" THEN [ok |-> FALSE, runs |-> <<>>]
    ELSE LET inner == stringifyItems(v.items, v.kind = "object", TRUE) IN
         [ok |-> inner.ok, runs |-> <<Run("a", 1)>> \o inner.runs \o <<Run("a", 1)>>]

stringifyItems(items, keyed, first) ==
    IF items = <<>> THEN [ok |-> TRUE, runs |-> <<>>]
    ELSE LET item == Head(items)
             comma == IF first THEN <<>> ELSE <<Run("a", 1)>>
             key == IF keyed THEN <<Run("q", 1), Run("a", item.k), Run("q", 1), Run("a", 1)>>
                    ELSE <<>>
             one == stringify(item.v)
             value == IF item.n > 1
                      THEN [ok |-> TRUE,
                            runs |-> <<Run("a", item.n * (item.v.chars + 1) - 1)>>]
                      ELSE one
             rest == stringifyItems(Tail(items), keyed, FALSE)
         IN  [ok |-> value.ok /\ rest.ok,
              runs |-> comma \o key \o value.runs \o rest.runs]

\* String(mapped), of the catch clause
RECURSIVE toStringRuns(_)
RECURSIVE joinRuns(_, _)
toStringRuns(v) ==
    IF v.kind = "string" THEN v.runs
    ELSE IF v.kind = "literal" THEN <<Run("a", v.chars)>>
    ELSE IF v.kind = "bigint" THEN <<Run("a", 1)>>
    ELSE IF v.kind = "object" THEN <<Run("a", 15)>>
    ELSE joinRuns(v.items, TRUE)

joinRuns(items, first) ==
    IF items = <<>> THEN <<>>
    ELSE LET item == Head(items)
             comma == IF first THEN <<>> ELSE <<Run("a", 1)>>
             value == IF item.n > 1 THEN <<Run("a", item.n * (item.v.chars + 1) - 1)>>
                      ELSE toStringRuns(item.v)
         IN  comma \o value \o joinRuns(Tail(items), FALSE)

\* { truncated: true, bytes, preview }
Wrapper(bytes, preview) ==
    [kind |-> "object",
     items |-> <<Keyed(9, Lit(4)), Keyed(5, Lit(digits(bytes))), Keyed(7, Str(preview))>>]

\* { truncated: true, preview }
FallbackWrapper(preview) ==
    [kind |-> "object", items |-> <<Keyed(9, Lit(4)), Keyed(7, Str(preview))>>]

serializedBytes(v) == byteLengthRuns(stringify(v).runs)

WalkDepth == 6

ShrinkPasses == 6

\* floor(budget * 0.9)
shrunk(budget) == Max(0, (budget * 9) \div 10)

(***************************************************************************)
(* hardCapToolOutput as a process: the walk, then the serialization with   *)
(* the first preview or the catch clause, then the passes of the shrink    *)
(* loop.                                                                   *)
(***************************************************************************)
MaxItems == 2

MaxNesting == 7

SmallString == Str(<<Run("a", 10)>>)

\* a string of quotes that is just within the hard byte cap
QuoteString == Str(<<Run("q", TOOL_OUTPUT_HARD_MAX_BYTES)>>)

LongString == Str(<<Run("a", 200000)>>)

Leaves == {SmallString, QuoteString, LongString, Lit(1), BigIntValue}

Payload2(heap, root) == [heap |-> heap, root |-> root]

ItemsOf(values) == [k \in 1..Len(values) |-> Item(values[k], 1)]

\* one container of leaves and references to itself; an array of one such
\* value and 400 numbers, which is above the ceiling of capContainerSize
OneContainer ==
    {Payload2(<<Node(kind, ItemsOf(values), FALSE)>>, Ref(1)) :
        kind \in {"array", "object"},
        values \in SeqsUpTo(Leaves \cup {Ref(1)}, MaxItems)}
    \cup {Payload2(<<Node("array", <<Item(value, 1), Item(Lit(1), MaxArray)>>, FALSE)>>,
                   Ref(1)) : value \in Leaves \cup {Ref(1)}}

\* arrays within arrays, depth deep, around a leaf or an object whose
\* getter throws
Nested ==
    {Payload2([k \in 1..depth |->
                  IF k < depth THEN Node("array", <<Item(Ref(k + 1), 1)>>, FALSE)
                  ELSE Node("array", <<Item(leaf, 1)>>, FALSE)],
              Ref(1)) : depth \in 1..MaxNesting, leaf \in Leaves}
    \cup {Payload2([k \in 1..depth |->
                      IF k < depth THEN Node("array", <<Item(Ref(k + 1), 1)>>, FALSE)
                      ELSE Node("object", <<Item(SmallString, 1)>>, TRUE)],
                   Ref(1)) : depth \in 1..MaxNesting}

\* a container referred to twice, which may refer back
Shared ==
    {Payload2(<<Node("array", <<Item(Ref(2), 1), Item(Ref(2), 1)>>, FALSE),
                Node(kind, <<Item(inner, 1)>>, FALSE)>>, Ref(1)) :
        kind \in {"array", "object"}, inner \in Leaves \cup {Ref(1)}}

Payloads ==
    {Payload2(<<>>, leaf) : leaf \in Leaves} \cup OneContainer \cup Nested \cup Shared

IdleCapper(payload) ==
    [heap |-> payload.heap, root |-> payload.root,
     maxBytes |-> TOOL_OUTPUT_HARD_MAX_BYTES, maxLines |-> TOOL_OUTPUT_HARD_MAX_LINES,
     pc |-> "start", mapped |-> NoResult, entered |-> <<>>, serialized |-> <<>>,
     bytes |-> 0, budget |-> 0, preview |-> <<>>, i |-> 0, result |-> NoResult]

CapperInit ==
    /\ capper \in {IdleCapper(payload) : payload \in Payloads}
    /\ clamp = NoResult
    /\ sessionFile = <<>>
    /\ rewriter = NoResult
    /\ compactor = NoResult
    /\ sessionLock = "free"
    /\ numeric = NoResult
    /\ embedded = NoResult
    /\ guard = NoResult
    /\ compactions = NoResult
    /\ telegram = NoResult
    /\ history = <<>>
    /\ pruned = NoResult
    /\ prunedBefore = NoResult
    /\ sumParams = NoResult
    /\ summarizer = NoResult
    /\ signalAborted = FALSE

CapperReturned(c, value) ==
    [c EXCEPT !.pc = "done",
              !.result = [value |-> value, outBytes |-> serializedBytes(value)]]

\* line 178: the walk, outside the try
CapperWalk ==
    /\ capper.pc = "start"
    /\ LET r == walk(capper.heap, capper.root, WalkDepth,
                     [seen |-> {}, entered |-> <<>>, threw |-> FALSE, out |-> NoResult],
                     capper.maxBytes, capper.maxLines)
       IN  capper' = IF r.threw
                     THEN [capper EXCEPT !.pc = "thrown", !.entered = r.entered]
                     ELSE [capper EXCEPT !.pc = "walked", !.mapped = r.out,
                                         !.entered = r.entered]
    /\ UNCHANGED <<clamp, prunerVars, summarizerVars, rewriterVars, numeric, embedded, laterVars>>

\* lines 181-193 and the catch clause of 206-212
CapperSerialize ==
    /\ capper.pc = "walked"
    /\ LET json == stringify(capper.mapped)
           bytes == byteLengthRuns(json.runs)
           overhead == serializedBytes(Wrapper(bytes, <<>>))
           budget == Max(0, capper.maxBytes - overhead)
           fallbackBudget == Max(0, capper.maxBytes - serializedBytes(FallbackWrapper(<<>>)))
       IN  capper' =
             IF ~json.ok
             THEN CapperReturned(capper,
                      FallbackWrapper(hardTruncateTextRuns(toStringRuns(capper.mapped),
                                                           fallbackBudget, capper.maxLines)))
             ELSE IF bytes <= capper.maxBytes THEN CapperReturned(capper, capper.mapped)
             ELSE [capper EXCEPT !.pc = "shrinking", !.serialized = json.runs,
                                 !.bytes = bytes, !.budget = budget,
                                 !.preview = hardTruncateTextRuns(json.runs, budget,
                                                                  capper.maxLines)]
    /\ UNCHANGED <<clamp, prunerVars, summarizerVars, rewriterVars, numeric, embedded, laterVars>>

\* lines 195-204: one pass of the loop, and the return after it ends
CapperShrinkPass ==
    /\ capper.pc = "shrinking"
    /\ LET out == Wrapper(capper.bytes, capper.preview)
           budget == shrunk(capper.budget)
           preview == hardTruncateTextRuns(capper.serialized, budget, capper.maxLines)
       IN  capper' =
             IF serializedBytes(out) <= capper.maxBytes \/ capper.budget <= 0
             THEN CapperReturned(capper, out)
             ELSE IF capper.i + 1 < ShrinkPasses
             THEN [capper EXCEPT !.budget = budget, !.preview = preview, !.i = capper.i + 1]
             ELSE CapperReturned([capper EXCEPT !.budget = budget, !.preview = preview,
                                                !.i = capper.i + 1],
                                 Wrapper(capper.bytes, preview))
    /\ UNCHANGED <<clamp, prunerVars, summarizerVars, rewriterVars, numeric, embedded, laterVars>>

CapperNext ==
    \/ CapperWalk
    \/ CapperSerialize
    \/ CapperShrinkPass

CapperSpec == CapperInit /\ [][CapperNext]_vars

(***************************************************************************)
(* The chunk ratio and the token estimate after compaction.  Ratios are    *)
(* exact fractions: BASE_CHUNK_RATIO 0.4 and MIN_CHUNK_RATIO 0.15 are      *)
(* counted in hundredths, SAFETY_MARGIN 1.2 and TOKENS_AFTER_SANITY_RATIO  *)
(* 1.1 in tenths.  A message carries its role, its token estimate, the     *)
(* context tokens of its usage record (0: no usage) and its stop reason.   *)
(***************************************************************************)
BASE_CHUNK_RATIO == 40

MIN_CHUNK_RATIO == 15

SAFETY_MARGIN == 12

TOKENS_AFTER_SANITY_RATIO == 11

Ratio(num, den) == [num |-> num, den |-> den]

\* a plausible slip: the average is compared without the safety margin
computeAdaptiveChunkRatioNoMargin(messages, contextWindow) ==
    LET totalTokens == estimateMessagesTokens(messages)
        den == 100 * Len(messages) * contextWindow
        avgRatioTimes2 == 2 * totalTokens * 100
        floorRatio == MIN_CHUNK_RATIO * Len(messages) * contextWindow
        baseRatio == BASE_CHUNK_RATIO * Len(messages) * contextWindow
        reduction == Min(avgRatioTimes2, baseRatio - floorRatio)
    IN  IF Len(messages) = 0 THEN Ratio(BASE_CHUNK_RATIO, 100)
        ELSE IF totalTokens * 10 > Len(messages) * contextWindow
        THEN Ratio(Max(floorRatio, baseRatio - reduction), den)
        ELSE Ratio(BASE_CHUNK_RATIO, 100)

\* computeAdaptiveChunkRatio: avgRatio = totalTokens * 1.2 / (length *
\* contextWindow); every term is counted in units of 1 / (100 * length *
\* contextWindow), the denominator of the ratio returned
computeAdaptiveChunkRatio(messages, contextWindow) ==
    LET totalTokens == estimateMessagesTokens(messages)
        den == 100 * Len(messages) * contextWindow
        avgRatioTimes2 == 2 * totalTokens * SAFETY_MARGIN * 10
        floorRatio == MIN_CHUNK_RATIO * Len(messages) * contextWindow
        baseRatio == BASE_CHUNK_RATIO * Len(messages) * contextWindow
        reduction == Min(avgRatioTimes2, baseRatio - floorRatio)
    IN  IF Len(messages) = 0 THEN Ratio(BASE_CHUNK_RATIO, 100)
        ELSE IF totalTokens * SAFETY_MARGIN > Len(messages) * contextWindow
        THEN Ratio(Max(floorRatio, baseRatio - reduction), den)
        ELSE Ratio(BASE_CHUNK_RATIO, 100)

NumMsg(role, tokens, usage, stopReason) ==
    [role |-> role, tokens |-> tokens, usage |-> usage, stopReason |-> stopReason]

\* getLastAssistantUsageInfo: the index (0-based, -1: none) of the last
\* assistant message with usage that neither aborted nor failed
getLastAssistantUsageInfo(messages) ==
    LET hits == {i \in 1..Len(messages) :
                    /\ messages[i].role = "assistant"
                    /\ messages[i].stopReason \notin {"aborted", "error"}
                    /\ messages[i].usage # 0}
    IN  IF hits = {} THEN -1 ELSE (CHOOSE i \in hits : \A j \in hits : j <= i) - 1

\* estimateContextTokensInternal(messages).tokens: the usage of that
\* message plus the estimates of the messages after it
estimateContextTokensInternal(messages) ==
    LET index == getLastAssistantUsageInfo(messages) IN
    IF index < 0 THEN estimateMessagesTokens(messages)
    ELSE messages[index + 1].usage + estimateMessagesTokens(SliceFrom(messages, index + 1))

\* estimateTokensAfterCompaction: the value returned and whether
\* console.warn was called; tokensBefore is optional ([isNumber |-> FALSE]
\* when it is undefined)
estimateTokensAfterCompaction(messages, tokensBefore) ==
    LET tokensAfter == estimateContextTokensInternal(messages) IN
    IF tokensAfter < 0 THEN [value |-> Undefined, warned |-> FALSE]
    ELSE [value |-> tokensAfter,
          warned |-> /\ tokensBefore.isNumber
                     /\ tokensBefore.value > 0
                     /\ tokensAfter * 10 > tokensBefore.value * TOKENS_AFTER_SANITY_RATIO]

MaxNumMessages == 3

NumMessageKinds ==
    {NumMsg("user", tokens, 0, "none") : tokens \in {8, 9, 11, 20000}}
    \cup {NumMsg("assistant", 9, 30, reason) : reason \in {"stop", "aborted"}}

NumContextWindows == {100, 100000}

NumTokensBefore ==
    {[isNumber |-> FALSE, value |-> 0]}
    \cup {[isNumber |-> TRUE, value |-> v] : v \in {0, 10, 27}}

IdleNumeric ==
    [messages |-> <<>>, contextWindow |-> 100,
     tokensBefore |-> [isNumber |-> FALSE, value |-> 0],
     ratio |-> Undefined, estimate |-> Undefined, sanitized |-> Undefined]

EstimatesInit ==
    /\ \E messages \in SeqsUpTo(NumMessageKinds, MaxNumMessages),
          contextWindow \in NumContextWindows, tokensBefore \in NumTokensBefore :
           numeric = [IdleNumeric EXCEPT !.messages = messages,
                                         !.contextWindow = contextWindow,
                                         !.tokensBefore = tokensBefore]
    /\ history = <<>>
    /\ pruned = NoResult
    /\ prunedBefore = NoResult
    /\ sumParams = NoResult
    /\ summarizer = NoResult
    /\ signalAborted = FALSE
    /\ sessionFile = <<>>
    /\ rewriter = NoResult
    /\ compactor = NoResult
    /\ sessionLock = "free"
    /\ embedded = NoResult
    /\ guard = NoResult
    /\ compactions = NoResult
    /\ telegram = NoResult
    /\ clamp = NoResult
    /\ capper = NoResult

ComputeAdaptiveChunkRatio ==
    /\ numeric.ratio = Undefined
    /\ numeric' = [numeric EXCEPT
                      !.ratio = computeAdaptiveChunkRatio(numeric.messages,
                                                          numeric.contextWindow)]
    /\ UNCHANGED <<prunerVars, summarizerVars, rewriterVars, pureVars, embedded, laterVars>>

EstimateTokensAfterCompaction ==
    /\ numeric.estimate = Undefined
    /\ numeric' = [numeric EXCEPT
                      !.estimate = estimateTokensAfterCompaction(numeric.messages,
                                                                 numeric.tokensBefore)]
    /\ UNCHANGED <<prunerVars, summarizerVars, rewriterVars, pureVars, embedded, laterVars>>

\* the sanitizer applied to the same estimate, as for keptTokens
SanitizeTokensAfterEstimate ==
    /\ numeric.sanitized = Undefined
    /\ numeric.tokensBefore.isNumber
    /\ numeric' = [numeric EXCEPT
                      !.sanitized = [value |-> sanitizeTokensAfterEstimate(
                                        estimateContextTokensInternal(numeric.messages),
                                        numeric.tokensBefore.value)]]
    /\ UNCHANGED <<prunerVars, summarizerVars, rewriterVars, pureVars, embedded, laterVars>>

EstimatesNext ==
    \/ ComputeAdaptiveChunkRatio
    \/ EstimateTokensAfterCompaction
    \/ SanitizeTokensAfterEstimate

EstimatesSpec == EstimatesInit /\ [][EstimatesNext]_vars

(***************************************************************************)
(* Chunking and part-splitting applied to a list of messages; the messages *)
(* are told apart by their ids.                                            *)
(***************************************************************************)
PartsRequested == 0..3

ChunkCeilings == {0, 1, 2, 4}

IdlePartition(messages, parts, maxTokens) ==
    [messages |-> messages, parts |-> parts, maxTokens |-> maxTokens,
     chunks |-> Undefined, split |-> Undefined]

PartitionInit ==
    /\ \E messages \in SumHistories, parts \in PartsRequested, maxTokens \in ChunkCeilings :
           numeric = IdlePartition(messages, parts, maxTokens)
    /\ history = <<>>
    /\ pruned = NoResult
    /\ prunedBefore = NoResult
    /\ sumParams = NoResult
    /\ summarizer = NoResult
    /\ signalAborted = FALSE
    /\ sessionFile = <<>>
    /\ rewriter = NoResult
    /\ compactor = NoResult
    /\ sessionLock = "free"
    /\ embedded = NoResult
    /\ guard = NoResult
    /\ compactions = NoResult
    /\ telegram = NoResult
    /\ clamp = NoResult
    /\ capper = NoResult

ChunkMessagesByMaxTokens ==
    /\ numeric.chunks = Undefined
    /\ numeric' = [numeric EXCEPT
                      !.chunks = [value |-> chunkMessagesByMaxTokens(numeric.messages,
                                                                     numeric.maxTokens)]]
    /\ UNCHANGED <<prunerVars, summarizerVars, rewriterVars, pureVars, embedded, laterVars>>

SplitMessagesByTokenShare ==
    /\ numeric.split = Undefined
    /\ numeric' = [numeric EXCEPT
                      !.split = [value |-> splitMessagesByTokenShare(numeric.messages,
                                                                     numeric.parts)]]
    /\ UNCHANGED <<prunerVars, summarizerVars, rewriterVars, pureVars, embedded, laterVars>>

PartitionNext == ChunkMessagesByMaxTokens \/ SplitMessagesByTokenShare

PartitionSpec == PartitionInit /\ [][PartitionNext]_vars

(***************************************************************************)
(* The embedded runs of one session: ACTIVE_EMBEDDED_RUNS holds the handle *)
(* of the session (0: no entry), COMPACTION_BUFFERS its buffer (<<>>: no   *)
(* entry or an empty one).  A handle answers isStreaming and isCompacting  *)
(* and records the calls of its queueMessage.  Texts are numbered in the   *)
(* order in which they are offered.  acceptedWhileCompacting remembers the *)
(* texts for which queueEmbeddedPiMessage returned true after buffering,   *)
(* with the compaction attempt during which each was accepted, discarded   *)
(* the texts that clearCompactionBuffer counted as discarded.              *)
(***************************************************************************)
Handles == {1, 2}

NoHandle == 0

MaxTexts == 2

MaxRetries == 1

Call(handle, text) == [handle |-> handle, text |-> text]

Op(name, handle, result) == [name |-> name, handle |-> handle, result |-> result]

IdleEmbedded ==
    [active |-> NoHandle,
     isStreaming |-> [h \in Handles |-> TRUE],
     isCompacting |-> [h \in Handles |-> FALSE],
     buffer |-> <<>>,
     queueMessage |-> <<>>,
     acceptedWhileCompacting |-> <<>>,
     discarded |-> {},
     offered |-> 0,
     retries |-> 0,
     last |-> Op("none", NoHandle, FALSE)]

\* queueEmbeddedPiMessage(sessionId, text): the state after the call; the
\* value returned is last.result
queueEmbeddedPiMessage(e, text) ==
    IF e.active = NoHandle
    THEN [e EXCEPT !.last = Op("queue", NoHandle, FALSE)]
    ELSE IF ~e.isStreaming[e.active]
    THEN [e EXCEPT !.last = Op("queue", e.active, FALSE)]
    ELSE IF e.isCompacting[e.active]
    THEN [e EXCEPT !.buffer = Append(@, text),
                   !.acceptedWhileCompacting =
                       Append(@, [text |-> text, attempt |-> e.retries]),
                   !.last = Op("queue", e.active, TRUE)]
    ELSE [e EXCEPT !.queueMessage = Append(@, Call(e.active, text)),
                   !.last = Op("queue", e.active, TRUE)]

\* clearCompactionBuffer(sessionId): the buffer is deleted, not drained
clearCompactionBuffer(e) ==
    [e EXCEPT !.buffer = <<>>, !.discarded = @ \cup {e.buffer[i] : i \in 1..Len(e.buffer)}]

\* a plausible slip: the drain hands the texts over and keeps the buffer
drainCompactionBufferKeepsBuffer(e) ==
    IF e.buffer = <<>> THEN e
    ELSE IF e.active = NoHandle THEN [e EXCEPT !.buffer = <<>>]
    ELSE [e EXCEPT !.queueMessage =
                       @ \o [i \in 1..Len(e.buffer) |-> Call(e.active, e.buffer[i])]]

\* drainCompactionBuffer(sessionId): the buffer is deleted; without an
\* active run its texts are lost, otherwise each is handed to the active
\* handle's queueMessage in buffer order
drainCompactionBuffer(e) ==
    IF e.buffer = <<>> THEN e
    ELSE IF e.active = NoHandle THEN [e EXCEPT !.buffer = <<>>]
    ELSE [e EXCEPT !.buffer = <<>>,
                   !.queueMessage =
                       @ \o [i \in 1..Len(e.buffer) |-> Call(e.active, e.buffer[i])]]

EmbeddedInit ==
    /\ embedded = IdleEmbedded
    /\ guard = NoResult
    /\ compactions = NoResult
    /\ telegram = NoResult
    /\ numeric = NoResult
    /\ history = <<>>
    /\ pruned = NoResult
    /\ prunedBefore = NoResult
    /\ sumParams = NoResult
    /\ summarizer = NoResult
    /\ signalAborted = FALSE
    /\ sessionFile = <<>>
    /\ rewriter = NoResult
    /\ compactor = NoResult
    /\ sessionLock = "free"
    /\ clamp = NoResult
    /\ capper = NoResult

\* setActiveEmbeddedRun(sessionId, handle): a run starts or replaces the
\* session's run; the buffer is left alone
SetActiveEmbeddedRun(handle) ==
    /\ embedded.active # handle
    /\ embedded' = [embedded EXCEPT !.active = handle,
                                    !.last = Op("set", handle, TRUE)]
    /\ UNCHANGED <<prunerVars, summarizerVars, rewriterVars, pureVars, numeric, laterVars>>

\* clearActiveEmbeddedRun(sessionId, handle): skipped on a handle mismatch
ClearActiveEmbeddedRun(handle) ==
    /\ embedded' =
           IF embedded.active = handle
           THEN [clearCompactionBuffer(embedded) EXCEPT
                     !.active = NoHandle, !.last = Op("clear", handle, TRUE)]
           ELSE [embedded EXCEPT !.last = Op("clear", handle, FALSE)]
    /\ UNCHANGED <<prunerVars, summarizerVars, rewriterVars, pureVars, numeric, laterVars>>

QueueEmbeddedPiMessage ==
    /\ embedded.offered < MaxTexts
    /\ embedded' = [queueEmbeddedPiMessage(embedded, embedded.offered + 1) EXCEPT
                       !.offered = @ + 1]
    /\ UNCHANGED <<prunerVars, summarizerVars, rewriterVars, pureVars, numeric, laterVars>>

\* the run of a handle starts or stops streaming
StreamingChanges(handle) ==
    /\ embedded' = [embedded EXCEPT !.isStreaming[handle] = ~@,
                                    !.last = Op("streaming", handle, ~embedded.isStreaming[handle])]
    /\ UNCHANGED <<prunerVars, summarizerVars, rewriterVars, pureVars, numeric, laterVars>>

\* auto compaction starts in the run of a handle: isCompacting turns true
AutoCompactionStart(handle) ==
    /\ ~embedded.isCompacting[handle]
    /\ embedded' = [embedded EXCEPT !.isCompacting[handle] = TRUE,
                                    !.last = Op("start", handle, TRUE)]
    /\ UNCHANGED <<prunerVars, summarizerVars, rewriterVars, pureVars, numeric, laterVars>>

\* handleAutoCompactionEnd: with willRetry the compaction stays in flight
\* and nothing is drained; otherwise the session's buffer is drained once
AutoCompactionEnd(handle, willRetry) ==
    /\ embedded.isCompacting[handle]
    /\ IF willRetry
       THEN /\ embedded.retries < MaxRetries
            /\ embedded' = [embedded EXCEPT !.retries = @ + 1,
                                            !.last = Op("retry", handle, TRUE)]
       ELSE embedded' = [drainCompactionBuffer(embedded) EXCEPT
                            !.isCompacting[handle] = FALSE,
                            !.last = Op("drain", handle, TRUE)]
    /\ UNCHANGED <<prunerVars, summarizerVars, rewriterVars, pureVars, numeric, laterVars>>

EmbeddedNext ==
    \/ \E handle \in Handles : SetActiveEmbeddedRun(handle)
    \/ \E handle \in Handles : ClearActiveEmbeddedRun(handle)
    \/ QueueEmbeddedPiMessage
    \/ \E handle \in Handles : StreamingChanges(handle)
    \/ \E handle \in Handles : AutoCompactionStart(handle)
    \/ \E handle \in Handles, willRetry \in BOOLEAN : AutoCompactionEnd(handle, willRetry)

EmbeddedSpec == EmbeddedInit /\ [][EmbeddedNext]_vars

(***************************************************************************)
(* The session tool-result guard (installSessionToolResultGuard): the      *)
(* appendMessage of the session manager is replaced by guardedAppend,      *)
(* which caps every toolResult, tracks the tool calls still waiting for a  *)
(* result and writes synthetic results for them.                           *)
(*                                                                         *)
(* A message is [role, calls, toolCallId, content, isSynthetic,            *)
(* sanitizedAway]; content is [isArray, text, nonTextBlocks, otherBytes]:  *)
(* text is the text of its text blocks joined by newlines (runs of code    *)
(* units), otherBytes the bytes of everything else in the content.  Tool   *)
(* call ids are 1, 2; 0 stands for a toolResult without an id.             *)
(***************************************************************************)
GUARD_TRUNCATION_SUFFIX == <<Run("w", 2), Run("a", 158)>>

\* "\n⚠️ [Tool result normalized during persistence to enforce output caps.]"
NormalizedNote == <<Run("n", 1), Run("w", 2), Run("a", 68)>>

\* hardTruncateText(text, {maxBytes, maxLines, suffix}) on runs, with the
\* flag it returns beside the text.
hardTruncateTextWithSuffix(runs, maxBytes, maxLines, suffix) ==
    LET withinLines == countLinesRuns(runs) <= maxLines
        withinBytes == byteLengthRuns(runs) <= maxBytes
        suffixBytes == byteLengthRuns(<<Run("n", 1)>> \o suffix)
        availableBytes == Max(0, maxBytes - suffixBytes)
        availableLines == Max(0, maxLines - countLinesRuns(suffix))
        trimmed == sliceToMaxUtf8BytesRuns(sliceToMaxLinesRuns(runs, availableLines),
                                           availableBytes)
    IN  IF withinLines /\ withinBytes THEN [text |-> runs, truncated |-> FALSE]
        ELSE IF trimmed # <<>>
             THEN [text |-> trimmed \o <<Run("n", 1)>> \o suffix, truncated |-> TRUE]
             ELSE [text |-> suffix, truncated |-> TRUE]

Content(isArray, text, nonTextBlocks, otherBytes) ==
    [isArray |-> isArray, text |-> text, nonTextBlocks |-> nonTextBlocks,
     otherBytes |-> otherBytes]

GuardMessage(role, calls, toolCallId, content) ==
    [role |-> role, calls |-> calls, toolCallId |-> toolCallId, content |-> content,
     isSynthetic |-> FALSE, sanitizedAway |-> FALSE]

\* The bytes of everything but the content in JSON.stringify(msg): the role,
\* the ids, the block wrappers.
EnvelopeBytes == 120

\* Buffer.byteLength(JSON.stringify(msg), "utf8")
\* (a newline of the text is two bytes there)
stringifiedBytes(msg) ==
    EnvelopeBytes + byteLengthRuns(msg.content.text) + newlinesRuns(msg.content.text)
        + msg.content.otherBytes

hardCapToolResultMessageForPersistence(msg) ==
    IF msg.role # "toolResult" THEN msg
    ELSE IF ~msg.content.isArray THEN msg
    ELSE LET combined == msg.content.text
             nonTextBlocks == msg.content.nonTextBlocks
         IN  IF combined = <<>> THEN msg
             ELSE LET forceTextOnly ==
                          \/ nonTextBlocks > 0
                          \/ stringifiedBytes(msg) > TOOL_OUTPUT_HARD_MAX_BYTES
                      prefix == IF forceTextOnly THEN combined \o NormalizedNote
                                ELSE combined
                      capped == hardTruncateTextWithSuffix(prefix,
                                    TOOL_OUTPUT_HARD_MAX_BYTES,
                                    TOOL_OUTPUT_HARD_MAX_LINES,
                                    GUARD_TRUNCATION_SUFFIX)
                  IN  IF ~forceTextOnly /\ ~capped.truncated THEN msg
                      ELSE [msg EXCEPT !.content = Content(TRUE, capped.text, 0, 0)]

extractAssistantToolCalls(msg) == IF msg.content.isArray THEN msg.calls ELSE <<>>

extractToolResultId(msg) == msg.toolCallId

\* makeMissingToolResult({toolCallId, toolName}) of session-transcript-repair:
\* an error result of one short text block for the call.
makeMissingToolResult(id) ==
    [role |-> "toolResult", calls |-> <<>>, toolCallId |-> id,
     content |-> Content(TRUE, <<Run("a", 100)>>, 0, 0),
     isSynthetic |-> TRUE, sanitizedAway |-> FALSE]

\* sanitizeToolCallInputs([message]) of session-transcript-repair: no message
\* when every tool call block of it is malformed, the message otherwise.
sanitizeToolCallInputs(message) == IF message.sanitizedAway THEN <<>> ELSE <<message>>

\* The contents a tool, or a transform hook, hands over.
ShortContent == Content(TRUE, <<Run("a", 10)>>, 0, 0)

LongContent == Content(TRUE, <<Run("a", 30000), Run("n", 2500), Run("w", 10000)>>, 0, 0)

NearCapContent == Content(TRUE, <<Run("a", 51100)>>, 0, 0)

MixedContent == Content(TRUE, <<Run("a", 10)>>, 1, 70000)

ImageContent == Content(TRUE, <<>>, 1, 70000)

StringContent == Content(FALSE, <<Run("a", 70000)>>, 0, 0)

\* opts.transformToolResultForPersistence: absent, or a hook that replaces
\* the content of the result.
Transformers == {"none", "text", "image"}

persistToolResult(transformer, message) ==
    CASE transformer = "none" -> message
      [] transformer = "text" -> [message EXCEPT !.content = LongContent]
      [] transformer = "image" -> [message EXCEPT !.content = ImageContent]

\* What the session manager keeps of an appended message.
Persisted(message) ==
    [role |-> message.role, calls |-> message.calls, toolCallId |-> message.toolCallId,
     isSynthetic |-> message.isSynthetic,
     bytes |-> byteLengthRuns(message.content.text) + message.content.otherBytes,
     lines |-> countLinesRuns(message.content.text)]

RECURSIVE appendSynthetic(_, _, _)
appendSynthetic(transcript, ids, transformer) ==
    IF ids = <<>> THEN transcript
    ELSE appendSynthetic(
             Append(transcript,
                    Persisted(hardCapToolResultMessageForPersistence(
                        persistToolResult(transformer, makeMissingToolResult(Head(ids)))))),
             Tail(ids), transformer)

flushPendingToolResults(g) ==
    IF g.pending = <<>> THEN g
    ELSE [g EXCEPT !.transcript =
                       IF g.allowSyntheticToolResults
                       THEN appendSynthetic(g.transcript, g.pending, g.transformer)
                       ELSE g.transcript,
                   !.pending = <<>>]

\* pending.delete(id)
pendingDelete(pending, id) == SelectSeq(pending, LAMBDA p : p # id)

\* pending.set(call.id, call.name) for each call: a Map keeps the place of a
\* key it already holds.
RECURSIVE pendingSetAll(_, _)
pendingSetAll(pending, calls) ==
    IF calls = <<>> THEN pending
    ELSE pendingSetAll(IF \E k \in 1..Len(pending) : pending[k] = Head(calls)
                       THEN pending ELSE Append(pending, Head(calls)),
                       Tail(calls))

flushBeforeAppendFirstTestOnly(pending, toolCalls, nextRole) ==
    pending # <<>> /\ (toolCalls = <<>> \/ nextRole # "assistant")

\* The two tests of guardedAppend before a message that is no toolResult.
flushBeforeAppend(pending, toolCalls, nextRole) ==
    \/ pending # <<>> /\ (toolCalls = <<>> \/ nextRole # "assistant")
    \/ pending # <<>> /\ toolCalls # <<>>

guardedAppend(g, message) ==
    LET sanitized == IF message.role = "assistant" THEN sanitizeToolCallInputs(message)
                     ELSE <<message>>
    IN  IF sanitized = <<>>
        THEN [(IF g.allowSyntheticToolResults /\ g.pending # <<>>
               THEN flushPendingToolResults(g) ELSE g)
              EXCEPT !.last = [op |-> "dropped", role |-> message.role]]
        ELSE LET nextMessage == sanitized[1]
                 nextRole == nextMessage.role
             IN  IF nextRole = "toolResult"
                 THEN LET id == extractToolResultId(nextMessage)
                          preCapped == hardCapToolResultMessageForPersistence(nextMessage)
                          transformed == persistToolResult(g.transformer, preCapped)
                          postCapped == hardCapToolResultMessageForPersistence(transformed)
                      IN  [g EXCEPT !.pending = IF id # 0 THEN pendingDelete(g.pending, id)
                                                ELSE g.pending,
                                    !.transcript = Append(g.transcript, Persisted(postCapped)),
                                    !.last = [op |-> "append", role |-> nextRole]]
                 ELSE LET toolCalls == IF nextRole = "assistant"
                                       THEN extractAssistantToolCalls(nextMessage)
                                       ELSE <<>>
                          flushed == IF /\ g.allowSyntheticToolResults
                                        /\ flushBeforeAppend(g.pending, toolCalls, nextRole)
                                     THEN flushPendingToolResults(g) ELSE g
                      IN  [flushed EXCEPT
                               !.transcript = Append(flushed.transcript,
                                                     Persisted(nextMessage)),
                               !.pending = pendingSetAll(flushed.pending, toolCalls),
                               !.last = [op |-> "append", role |-> nextRole]]

MaxAppends == 3

CallIds == {1, 2}

ToolResults ==
    {GuardMessage("toolResult", <<>>, id, c) : id \in CallIds, c \in {ShortContent, LongContent}}
    \cup {GuardMessage("toolResult", <<>>, 1, c) :
              c \in {NearCapContent, MixedContent, ImageContent, StringContent}}
    \cup {GuardMessage("toolResult", <<>>, 0, ShortContent)}

AssistantMessages ==
    {GuardMessage("assistant", calls, 0, ShortContent) : calls \in {<<>>, <<1>>, <<1, 2>>}}
    \cup {[GuardMessage("assistant", <<1>>, 0, ShortContent) EXCEPT !.sanitizedAway = TRUE]}

GuardMessages ==
    ToolResults \cup AssistantMessages \cup {GuardMessage("user", <<>>, 0, ShortContent)}

GuardInit ==
    /\ \E allow \in BOOLEAN, transformer \in Transformers :
           guard = [transcript |-> <<>>, pending |-> <<>>,
                    allowSyntheticToolResults |-> allow, transformer |-> transformer,
                    appends |-> 0, last |-> [op |-> "none", role |-> "none"]]
    /\ history = <<>>
    /\ pruned = NoResult
    /\ prunedBefore = NoResult
    /\ sumParams = NoResult
    /\ summarizer = NoResult
    /\ signalAborted = FALSE
    /\ sessionFile = <<>>
    /\ rewriter = NoResult
    /\ compactor = NoResult
    /\ sessionLock = "free"
    /\ clamp = NoResult
    /\ capper = NoResult
    /\ numeric = NoResult
    /\ embedded = NoResult
    /\ compactions = NoResult
    /\ telegram = NoResult

GuardedAppend(message) ==
    /\ guard.appends < MaxAppends
    /\ guard' = [guardedAppend(guard, message) EXCEPT !.appends = guard.appends + 1]
    /\ UNCHANGED <<prunerVars, summarizerVars, rewriterVars, pureVars, numeric, embedded,
                   compactions, telegram>>

\* The flush the owner of the guard asks for, e.g. at the end of a run; once
\* between two appends, a second one finds nothing pending.
FlushPendingToolResults ==
    /\ guard.last.op # "flush"
    /\ guard' = [flushPendingToolResults(guard) EXCEPT
                     !.last = [op |-> "flush", role |-> "none"]]
    /\ UNCHANGED <<prunerVars, summarizerVars, rewriterVars, pureVars, numeric, embedded,
                   compactions, telegram>>

GuardNext ==
    \/ \E message \in GuardMessages : GuardedAppend(message)
    \/ FlushPendingToolResults

GuardSpec == GuardInit /\ [][GuardNext]_vars

(***************************************************************************)
(* The session_compact tool and the compaction requests of runs.ts, for    *)
(* one session: COMPACTION_REQUESTS holds its key or not,                  *)
(* LAST_TOOL_COMPACTIONS the time of its last tool-requested compaction.   *)
(* The clock counts milliseconds and moves in steps of ClockStepMs.        *)
(***************************************************************************)
COMPACTION_COOLDOWN_MS == 30000

ClockStepMs == 10000

MaxClockSteps == 5

NoTime == [isNumber |-> FALSE, value |-> 0]

\* requestSessionCompaction(sessionKey, nowMs): the result and the set
requestSessionCompaction(c, nowMs) ==
    IF c.requested
    THEN [c EXCEPT !.request = [accepted |-> FALSE, reason |-> "duplicate",
                                retryAfterMs |-> NoTime]]
    ELSE LET elapsedMs == Max(0, nowMs - c.lastCompactedAt.value)
         IN  IF c.lastCompactedAt.isNumber /\ elapsedMs < COMPACTION_COOLDOWN_MS
             THEN [c EXCEPT !.request =
                       [accepted |-> FALSE, reason |-> "cooldown",
                        retryAfterMs |-> [isNumber |-> TRUE,
                                          value |-> COMPACTION_COOLDOWN_MS - elapsedMs]]]
             ELSE [c EXCEPT !.requested = TRUE,
                            !.request = [accepted |-> TRUE, reason |-> "none",
                                         retryAfterMs |-> NoTime]]

\* markSessionCompactionCompleted(sessionKey, nowMs)
markSessionCompactionCompleted(c, nowMs) ==
    [c EXCEPT !.lastCompactedAt = [isNumber |-> TRUE, value |-> nowMs]]

\* consumeSessionCompactionRequest(sessionKey): the set after it, and in
\* consumed whether a request existed
consumeSessionCompactionRequest(c) ==
    [c EXCEPT !.requested = FALSE, !.consumed = c.requested]

Details(ok, status, scheduled) ==
    [ok |-> ok, status |-> status, scheduled |-> scheduled, reason |-> "none",
     retryAfterMs |-> NoTime]

\* execute of the session_compact tool; hasSessionKey: opts.agentSessionKey
\* is a non-blank string.  The call before records what the request found.
execute(c, hasSessionKey, nowMs) ==
    IF ~hasSessionKey
    THEN [c EXCEPT !.details = Details(FALSE, "no-session", FALSE),
                   !.call = [op |-> "execute", hadSessionKey |-> FALSE,
                             wasRequested |-> c.requested, inCooldown |-> FALSE]]
    ELSE [requestSessionCompaction(c, nowMs) EXCEPT
              !.details = Details(TRUE, "queued", TRUE),
              !.call = [op |-> "execute", hadSessionKey |-> TRUE,
                        wasRequested |-> c.requested,
                        inCooldown |-> /\ c.lastCompactedAt.isNumber
                                       /\ nowMs - c.lastCompactedAt.value
                                              < COMPACTION_COOLDOWN_MS]]

NoCall == [op |-> "none", hadSessionKey |-> FALSE, wasRequested |-> FALSE,
           inCooldown |-> FALSE]

IdleCompactions ==
    [requested |-> FALSE, lastCompactedAt |-> NoTime, nowMs |-> 0,
     request |-> [accepted |-> FALSE, reason |-> "none", retryAfterMs |-> NoTime],
     consumed |-> FALSE, details |-> Details(FALSE, "none", FALSE), call |-> NoCall]

CompactToolInit ==
    /\ compactions = IdleCompactions
    /\ history = <<>>
    /\ pruned = NoResult
    /\ prunedBefore = NoResult
    /\ sumParams = NoResult
    /\ summarizer = NoResult
    /\ signalAborted = FALSE
    /\ sessionFile = <<>>
    /\ rewriter = NoResult
    /\ compactor = NoResult
    /\ sessionLock = "free"
    /\ clamp = NoResult
    /\ capper = NoResult
    /\ numeric = NoResult
    /\ embedded = NoResult
    /\ guard = NoResult
    /\ telegram = NoResult

ExecuteSessionCompact(hasSessionKey) ==
    /\ compactions' = execute(compactions, hasSessionKey, compactions.nowMs)
    /\ UNCHANGED <<prunerVars, summarizerVars, rewriterVars, pureVars, numeric, embedded,
                   guard, telegram>>

\* the run picks the request up after the attempt
ConsumeSessionCompactionRequest ==
    /\ compactions' = [consumeSessionCompactionRequest(compactions) EXCEPT !.call = NoCall]
    /\ UNCHANGED <<prunerVars, summarizerVars, rewriterVars, pureVars, numeric, embedded,
                   guard, telegram>>

\* the compaction the run started for a consumed request has finished
MarkSessionCompactionCompleted ==
    /\ compactions.consumed
    /\ compactions' = [markSessionCompactionCompleted(compactions, compactions.nowMs)
                       EXCEPT !.consumed = FALSE, !.call = NoCall]
    /\ UNCHANGED <<prunerVars, summarizerVars, rewriterVars, pureVars, numeric, embedded,
                   guard, telegram>>

ClockAdvances ==
    /\ compactions.nowMs < MaxClockSteps * ClockStepMs
    /\ compactions' = [compactions EXCEPT !.nowMs = compactions.nowMs + ClockStepMs,
                                          !.call = NoCall]
    /\ UNCHANGED <<prunerVars, summarizerVars, rewriterVars, pureVars, numeric, embedded,
                   guard, telegram>>

CompactToolNext ==
    \/ \E hasSessionKey \in BOOLEAN : ExecuteSessionCompact(hasSessionKey)
    \/ ConsumeSessionCompactionRequest
    \/ MarkSessionCompactionCompleted
    \/ ClockAdvances

CompactToolSpec == CompactToolInit /\ [][CompactToolNext]_vars

(***************************************************************************)
(* The Telegram webhook listener (startTelegramWebhook): the request       *)
(* handler answers 200, then reads the update, appends it to the spool     *)
(* and processes it; replaySpoolOnce, on start and on a timer, processes   *)
(* the records the spool still holds.  An update is its update_id, and the *)
(* spool file of an update is named by it.  Every await of the source is   *)
(* a step, so the handlers of two requests and the replay interleave.      *)
(***************************************************************************)
Updates == {1, 2}

MaxFailures == 2

RECURSIVE sortedPaths(_)
\* spool.list(): the record files, sorted by name
sortedPaths(files) ==
    IF files = {} THEN <<>>
    ELSE LET first == CHOOSE f \in files : \A g \in files : f <= g
         IN  <<first>> \o sortedPaths(files \ {first})

\* spool.append(entry): the record is on disk
spoolAppend(t, update) ==
    [t EXCEPT !.spool = t.spool \cup {update}, !.spooledEver = t.spooledEver \cup {update}]

\* spool.ack(filePath): unlink, a missing file is tolerated
spoolAck(t, update) ==
    [t EXCEPT !.spool = t.spool \ {update},
              !.deletedEarly = IF update \in t.spool /\ t.succeeded[update] = 0
                               THEN t.deletedEarly \cup {update} ELSE t.deletedEarly]

\* bot.handleUpdate(update) is called
handleUpdateCalled(t, update) ==
    [t EXCEPT !.unspooledStart = IF update \in t.spooledEver THEN t.unspooledStart
                                 ELSE t.unspooledStart \cup {update}]

\* processUpdate(update, spoolPath) from the point where handleUpdate has
\* settled: on success the record is acknowledged, an error is logged
processUpdateSettled(t, update, hasSpoolPath, ok) ==
    IF ok
    THEN LET done == [t EXCEPT !.succeeded[update] = t.succeeded[update] + 1]
         IN  IF hasSpoolPath THEN spoolAck(done, update) ELSE done
    ELSE [t EXCEPT !.failed[update] = t.failed[update] + 1]

IdleTelegram ==
    [handler |-> [u \in Updates |-> "idle"],
     spool |-> {},
     replay |-> [pc |-> "idle", pending |-> <<>>],
     acked |-> {},
     spooledEver |-> {},
     unspooledStart |-> {},
     deletedEarly |-> {},
     succeeded |-> [u \in Updates |-> 0],
     failed |-> [u \in Updates |-> 0]]

TelegramInit ==
    /\ telegram = IdleTelegram
    /\ history = <<>>
    /\ pruned = NoResult
    /\ prunedBefore = NoResult
    /\ sumParams = NoResult
    /\ summarizer = NoResult
    /\ signalAborted = FALSE
    /\ sessionFile = <<>>
    /\ rewriter = NoResult
    /\ compactor = NoResult
    /\ sessionLock = "free"
    /\ clamp = NoResult
    /\ capper = NoResult
    /\ numeric = NoResult
    /\ embedded = NoResult
    /\ guard = NoResult
    /\ compactions = NoResult

telegramOthers == <<prunerVars, summarizerVars, rewriterVars, pureVars, numeric, embedded,
                    guard, compactions>>

\* POST of an update: res.writeHead(200); res.end("ok"); the body is read
\* after that
WebhookPost(update) ==
    /\ telegram.handler[update] = "idle"
    /\ telegram' = [telegram EXCEPT !.handler[update] = "acked",
                                    !.acked = telegram.acked \cup {update}]
    /\ UNCHANGED telegramOthers

\* spool.append resolves: processUpdate(update, appended.filePath) starts
SpoolAppendResolves(update) ==
    /\ telegram.handler[update] = "acked"
    /\ telegram' = [handleUpdateCalled(spoolAppend(telegram, update), update)
                    EXCEPT !.handler[update] = "spooled"]
    /\ UNCHANGED telegramOthers

\* spool.append rejects: the catch starts processUpdate(update)
SpoolAppendRejects(update) ==
    /\ telegram.handler[update] = "acked"
    /\ telegram' = [handleUpdateCalled(telegram, update)
                    EXCEPT !.handler[update] = "unspooled"]
    /\ UNCHANGED telegramOthers

\* handleUpdate of the request handler settles
HandlerSettles(update, ok) ==
    /\ telegram.handler[update] \in {"spooled", "unspooled"}
    /\ ok \/ telegram.failed[update] < MaxFailures
    /\ telegram' = [processUpdateSettled(telegram, update,
                                         telegram.handler[update] = "spooled", ok)
                    EXCEPT !.handler[update] = "done"]
    /\ UNCHANGED telegramOthers

\* replaySpoolOnce starts: pending = await spool.list()
ReplayStarts ==
    /\ telegram.replay.pc = "idle"
    /\ telegram.spool # {}
    /\ telegram' = [telegram EXCEPT
                        !.replay = [pc |-> "listed", pending |-> sortedPaths(telegram.spool)]]
    /\ UNCHANGED telegramOthers

\* the next file of the replay: spool.read, then processUpdate(entry.update,
\* filePath); the read of a file that is gone throws, and the replay goes on
ReplayReads ==
    /\ telegram.replay.pc = "listed"
    /\ telegram' =
           IF telegram.replay.pending = <<>>
           THEN [telegram EXCEPT !.replay.pc = "idle"]
           ELSE IF Head(telegram.replay.pending) \in telegram.spool
           THEN [handleUpdateCalled(telegram, Head(telegram.replay.pending))
                 EXCEPT !.replay.pc = "processing"]
           ELSE [telegram EXCEPT !.replay.pending = Tail(telegram.replay.pending)]
    /\ UNCHANGED telegramOthers

\* handleUpdate of the replay settles
ReplaySettles(ok) ==
    /\ telegram.replay.pc = "processing"
    /\ ok \/ telegram.failed[Head(telegram.replay.pending)] < MaxFailures
    /\ telegram' = [processUpdateSettled(telegram, Head(telegram.replay.pending), TRUE, ok)
                    EXCEPT !.replay = [pc |-> "listed",
                                       pending |-> Tail(telegram.replay.pending)]]
    /\ UNCHANGED telegramOthers

TelegramNext ==
    \/ \E update \in Updates : WebhookPost(update)
    \/ \E update \in Updates : SpoolAppendResolves(update)
    \/ \E update \in Updates : SpoolAppendRejects(update)
    \/ \E update \in Updates, ok \in BOOLEAN : HandlerSettles(update, ok)
    \/ ReplayStarts
    \/ ReplayReads
    \/ \E ok \in BOOLEAN : ReplaySettles(ok)

TelegramSpec == TelegramInit /\ [][TelegramNext]_vars

(***************************************************************************)
(* Claims about the summarizer.                                            *)
(***************************************************************************)
Calls == summarizer.calls

Replies == summarizer.replies

IsError(n) == Replies[n].value.kind = "error"

\* the reply of call n is a cancellation: an AbortError, or any error
\* raised while the signal is aborted
IsCancellation(n) ==
    IsError(n) /\ (Replies[n].value.name = "AbortError" \/ Replies[n].aborted)

IsFailure(n) == IsError(n) /\ ~IsCancellation(n)

\* C5: a cancellation raised during a summarizer call propagates unchanged:
\* the invocation ends by throwing that very error, no call follows it, and
\* nothing is returned.
C5_CancellationPropagates ==
    \A n \in 1..Len(Replies) :
        IsCancellation(n) =>
            /\ summarizer.pc = "thrown"
            /\ summarizer.error = Replies[n].value
            /\ summarizer.result = Undefined
            /\ Len(Calls) = n

\* C5 witness: the full pass of a ladder that has small messages to fall
\* back on is cancelled by a plain error raised while the signal is aborted.
C5_Witness ==
    /\ summarizer.pc = "thrown"
    /\ Len(Replies) >= 2
    /\ IsCancellation(Len(Replies))
    /\ Replies[Len(Replies)].value.name = "Error"
    /\ summarizer.fb.phase = "full"
    /\ Len(smallMessages(summarizer.fb.messages)) > 0

Range(seq) == {seq[k] : k \in 1..Len(seq)}

OversizedIds(messages) == Range(oversizedNotes(messages))

SmallIds(messages) == Range(Ids(smallMessages(messages)))

\* what a ladder returned rests on a pass that succeeded over all of its
\* messages, or over all the non-oversized ones with a note for each
\* oversized one
LadderValueSound(ladder) ==
    /\ ladder.value.kind = "summary"
    /\ \/ /\ Range(Ids(ladder.messages)) \subseteq Range(ladder.value.covers)
          /\ ladder.value.notes = <<>>
       \/ /\ SmallIds(ladder.messages) \subseteq Range(ladder.value.covers)
          /\ SmallIds(ladder.messages) # {}
          /\ Range(ladder.value.covers) \cap OversizedIds(ladder.messages) = {}
          /\ Range(ladder.value.notes) = OversizedIds(ladder.messages)

\* the calls of the l-th summarizeWithFallback invocation that failed
FailedCalls(l) == {n \in 1..Len(Replies) : Calls[n].ladder = l /\ IsFailure(n)}

\* C6: no silently degraded summary.  Every value a ladder returns is sound,
\* the invocation returns only what its last ladder returned, and a ladder
\* whose two passes both failed ends the invocation with SummaryUnavailable.
C6_NoDegradedSummary ==
    /\ \A l \in 1..Len(summarizer.ladders) :
           LET ladder == summarizer.ladders[l] IN
           /\ ladder.outcome = "returned" => LadderValueSound(ladder)
           /\ ladder.outcome # "returned" => l = Len(summarizer.ladders)
    /\ \A l \in 1..(Len(summarizer.ladders) + 1) :
           Cardinality(FailedCalls(l)) >= 2 =>
               /\ summarizer.pc = "thrown"
               /\ summarizer.error = SummaryUnavailable
               /\ summarizer.result = Undefined
    /\ (summarizer.pc = "returned" /\ Len(sumParams.messages) > 0) =>
           /\ Len(summarizer.ladders) > 0
           /\ summarizer.result = summarizer.ladders[Len(summarizer.ladders)].value
           /\ summarizer.ladders[Len(summarizer.ladders)].outcome = "returned"

\* C6 witness: a part has returned a partial summary with an omission note
\* after its full pass failed, and then both passes of the merge failed and
\* SummaryUnavailable was thrown.
C6_Witness ==
    /\ summarizer.pc = "thrown"
    /\ summarizer.error = SummaryUnavailable
    /\ Cardinality(FailedCalls(Len(summarizer.ladders))) = 2
    /\ summarizer.stage = "merge"
    /\ \E l \in 1..Len(summarizer.ladders) :
           /\ summarizer.ladders[l].outcome = "returned"
           /\ summarizer.ladders[l].value.notes # <<>>

FirstOfPass(n) == n = 1 \/ Calls[n - 1].pass # Calls[n].pass

\* the previousSummary of the summarizeChunks pass that call n belongs to
PassPreviousSummary(n) ==
    IF Calls[n].stage = "part" THEN Undefined ELSE sumParams.previousSummary

ExceedsHalfWindow(m) == estimateTokens(m) * 2 > sumParams.contextWindow

GiantIds == Range(Ids(SelectSeq(sumParams.messages, ExceedsHalfWindow)))

\* C24: a message whose token estimate exceeds half the context window is
\* never part of a chunk passed to the summarizer, and the summary the
\* invocation returns carries an omission note for each such message.
C24_OversizedNeverSummarized ==
    /\ \A n \in 1..Len(Calls) : Range(Calls[n].chunk) \cap GiantIds = {}
    /\ (summarizer.pc = "returned" /\ summarizer.result.kind = "summary")
           => GiantIds \subseteq Range(summarizer.result.notes)

\* C25: no retry.  Once a request for a set of messages has failed with an
\* error that is no cancellation, no later request of the invocation is
\* issued for the same set of messages.
C25_NoRetry ==
    \A i, j \in 1..Len(Calls) :
        (i < j /\ i <= Len(Replies) /\ IsFailure(i)) => Calls[j].chunk # Calls[i].chunk

Chunks == summarizer.chunks

\* C27 as stated: every chunk the packing step produces totals at most the
\* per-chunk token ceiling.
C27_ChunksWithinCeiling ==
    \A k \in 1..Len(Chunks) :
        estimateMessagesTokens(Chunks[k]) <= sumParams.maxChunkTokens

\* C27 amended: every chunk totals at most the ceiling, or is a single
\* message that alone exceeds it.
C27_ChunksWithinCeilingOrSingle ==
    \A k \in 1..Len(Chunks) :
        \/ estimateMessagesTokens(Chunks[k]) <= sumParams.maxChunkTokens
        \/ /\ Len(Chunks[k]) = 1
           /\ estimateTokens(Chunks[k][1]) > sumParams.maxChunkTokens

\* C27 witness: the packing produced a chunk of two messages that fills the
\* ceiling and a chunk of one message above it.
C27_Witness ==
    /\ summarizer.pc = "awaiting"
    /\ \E k \in 1..Len(Chunks) :
           Len(Chunks[k]) = 2 /\ estimateMessagesTokens(Chunks[k]) = sumParams.maxChunkTokens
    /\ \E k \in 1..Len(Chunks) :
           Len(Chunks[k]) = 1 /\ estimateTokens(Chunks[k][1]) > sumParams.maxChunkTokens

(***************************************************************************)
(* Claims about the chunk ratio and the token estimate.                    *)
(***************************************************************************)
\* num / den compared with hundredths
AtLeastHundredths(r, h) == r.num * 100 >= h * r.den

AtMostHundredths(r, h) == r.num * 100 <= h * r.den

\* the average message size, with the safety margin of 1.2, exceeds 10% of
\* the context window
AverageAboveTenth ==
    /\ Len(numeric.messages) > 0
    /\ estimateMessagesTokens(numeric.messages) * 12
           > Len(numeric.messages) * numeric.contextWindow

\* C26: the adaptive chunk ratio is within [0.15, 0.4]; it is 0.4 when the
\* margin-adjusted average message size is at most 10% of the context
\* window, and strictly below 0.4 (and at least 0.15) when it is more.
C26_RatioWithinBounds ==
    numeric.ratio # Undefined =>
        /\ AtLeastHundredths(numeric.ratio, 15)
        /\ AtMostHundredths(numeric.ratio, 40)
        /\ ~AverageAboveTenth => numeric.ratio = Ratio(40, 100)
        /\ AverageAboveTenth => ~AtLeastHundredths(numeric.ratio, 40)

\* C26 witness: messages of 9000 tokens on average in a window of 100000
\* tokens (10.8% with the margin) give a ratio strictly between the floor
\* and the base.
C26_Witness ==
    /\ numeric.ratio # Undefined
    /\ numeric.contextWindow = 100000
    /\ AverageAboveTenth
    /\ ~AtMostHundredths(numeric.ratio, 15)
    /\ ~AtLeastHundredths(numeric.ratio, 40)

\* the estimate after the operation exceeds the count before it beyond 1.1x
EstimateImplausible ==
    /\ numeric.tokensBefore.isNumber
    /\ numeric.tokensBefore.value > 0
    /\ estimateContextTokensInternal(numeric.messages) * 10
           > numeric.tokensBefore.value * 11

C40_NoCallAfterCancellation ==
    [][signalAborted => Len(summarizer'.calls) = Len(summarizer.calls)]_vars

RECURSIVE Concat(_)
Concat(chunks) == IF chunks = <<>> THEN <<>> ELSE Head(chunks) \o Concat(Tail(chunks))

\* the chunks, in order, make up the messages, and none is empty
Partitions(chunks, messages) ==
    /\ Concat(chunks) = messages
    /\ \A k \in 1..Len(chunks) : chunks[k] # <<>>

\* C39 as stated: chunking and part-splitting partition their input, the
\* chunks concatenated in order are the input and none is empty, and the
\* split returns at most the requested number of parts.
C39_PartitionWithinParts ==
    /\ numeric.chunks # Undefined => Partitions(numeric.chunks.value, numeric.messages)
    /\ numeric.split # Undefined =>
           /\ Partitions(numeric.split.value, numeric.messages)
           /\ Len(numeric.split.value) <= numeric.parts

\* C39 amended: the same, the split returning at most max(1, parts) parts:
\* a request for less than one part is served as a request for one.
C39_PartitionWithinNormalizedParts ==
    /\ numeric.chunks # Undefined => Partitions(numeric.chunks.value, numeric.messages)
    /\ numeric.split # Undefined =>
           /\ Partitions(numeric.split.value, numeric.messages)
           /\ Len(numeric.split.value) <= Max(1, numeric.parts)

\* C39 witness: three messages were chunked into more than one chunk and
\* split into exactly the two parts requested, the token share of the
\* first part being exceeded before the last message.
C39_Witness ==
    /\ numeric.chunks # Undefined
    /\ numeric.split # Undefined
    /\ Len(numeric.messages) = 3
    /\ Len(numeric.chunks.value) > 1
    /\ numeric.parts = 2
    /\ Len(numeric.split.value) = 2
    /\ Len(numeric.split.value[1]) = 1

(***************************************************************************)
(* Claims about the compaction buffer of the embedded runs.                *)
(***************************************************************************)
QueuedTexts == {c.text : c \in Range(embedded.queueMessage)}

AcceptedTexts == {a.text : a \in Range(embedded.acceptedWhileCompacting)}

\* C29: a text accepted while the run is compacting is not dropped: it is
\* in the buffer until it has been handed to queueMessage, and once no run
\* of the session is compacting any more it has been handed over.
C29_BufferedThenQueued ==
    /\ \A t \in AcceptedTexts : t \in Range(embedded.buffer) \/ t \in QueuedTexts
    /\ (\A h \in Handles : ~embedded.isCompacting[h]) => AcceptedTexts \subseteq QueuedTexts

\* the step is a drain of the compaction buffer
DrainStep == embedded'.last.name = "drain" /\ embedded' # embedded

\* the texts accepted while compacting that were neither handed over nor
\* discarded yet, in the order in which they were accepted
PendingTexts ==
    LET pending == {i \in 1..Len(embedded.acceptedWhileCompacting) :
                       embedded.acceptedWhileCompacting[i].text
                           \notin QueuedTexts \cup embedded.discarded}
        Nth(k) == CHOOSE i \in pending : Cardinality({j \in pending : j <= i}) = k
    IN  [k \in 1..Cardinality(pending) |-> embedded.acceptedWhileCompacting[Nth(k)].text]

\* C30: a drain hands the buffered texts, in the order in which they were
\* accepted, to the queueMessage of the active run and leaves the buffer
\* empty; a drain of an empty buffer hands over nothing; no text is handed
\* over twice.
C30_DrainInOrderOnce ==
    /\ [][DrainStep =>
             /\ embedded'.buffer = <<>>
             /\ embedded.buffer = <<>> => embedded'.queueMessage = embedded.queueMessage
             /\ embedded'.queueMessage =
                    embedded.queueMessage
                    \o [i \in 1..Len(embedded.buffer) |->
                           Call(embedded.active, embedded.buffer[i])]
             /\ embedded.buffer # <<>> =>
                    /\ embedded.active # NoHandle
                    /\ embedded.buffer = PendingTexts]_vars
    /\ [](\A i, j \in 1..Len(embedded.queueMessage) :
             embedded.queueMessage[i].text = embedded.queueMessage[j].text => i = j)

\* C30 witness: a drain has handed over two texts, one accepted before and
\* one after a retry of the compaction.
C30_Witness ==
    /\ embedded.last.name = "drain"
    /\ embedded.buffer = <<>>
    /\ \E a, b \in Range(embedded.acceptedWhileCompacting) :
           /\ a.attempt < b.attempt
           /\ {a.text, b.text} \subseteq QueuedTexts

(***************************************************************************)
(* Claims about the pruner.                                                *)
(***************************************************************************)
Called == pruned # NoResult

Kept == pruned.messages

KeptIndices == 1..Len(Kept)

\* some message of the list makes the tool call with this id
CallMadeIn(messages, callId) ==
    \E j \in 1..Len(messages) : callId \in messages[j].toolCalls

FitsBudget == estimateMessagesTokens(history) <= pruned.budgetTokens

\* C1 as stated: every toolResult among the kept messages has its matching
\* toolCall (same call id) among the kept messages.
C1_KeptToolResultHasCall ==
    Called =>
        \A i \in KeptIndices :
            Kept[i].role = "toolResult" => CallMadeIn(Kept, Kept[i].toolCallId)

\* C1 amended: the pruner never separates a pair.  Every kept toolResult
\* whose toolCall occurs in the history has that toolCall kept, and when a
\* prefix is dropped every kept toolResult has its toolCall kept; a
\* toolResult already orphaned in a history that fits is returned as it is.
C1_PairNeverSeparated ==
    Called =>
        \A i \in KeptIndices :
            (Kept[i].role = "toolResult"
                /\ (pruned.droppedChunks = 1 \/ CallMadeIn(history, Kept[i].toolCallId)))
            => CallMadeIn(Kept, Kept[i].toolCallId)

\* C1 witness: a prefix was dropped and a toolResult survives together
\* with its toolCall.
C1_Witness ==
    /\ Called
    /\ pruned.droppedChunks = 1
    /\ \E i \in KeptIndices :
           Kept[i].role = "toolResult" /\ CallMadeIn(Kept, Kept[i].toolCallId)

\* C2 as stated: the kept messages are empty or begin with a message that
\* is not a toolResult.
C2_KeptNeverStartsWithToolResult ==
    Called => (Kept = <<>> \/ Kept[1].role # "toolResult")

\* C2 amended: the kept messages are empty or begin with a message that is
\* not a toolResult, unless the history fits the budget and is returned
\* unchanged.
C2_KeptStartUnlessFits ==
    Called =>
        \/ Kept = <<>>
        \/ Kept[1].role # "toolResult"
        \/ (FitsBudget /\ Kept = history /\ pruned.droppedChunks = 0)

\* C2 witness: a history that begins with a toolResult does not fit, and
\* the kept messages begin with a later message that is no toolResult.
C2_Witness ==
    /\ Called
    /\ ~FitsBudget
    /\ history[1].role = "toolResult"
    /\ Kept # <<>>
    /\ Kept[1].role # "toolResult"

ValidCuts == {i \in 0..(Len(history) - 1) : history[i + 1].role # "toolResult"}

SuffixFits(i) == estimateMessagesTokens(SliceFrom(history, i)) <= pruned.budgetTokens

SomeCutFits == \E i \in ValidCuts : SuffixFits(i)

LastValidCut == CHOOSE i \in ValidCuts : \A j \in ValidCuts : j <= i

\* C3, first half: if some valid cut point fits the budget, the kept
\* messages total at most the budget.
C3_FitsWhenFeasible ==
    (Called /\ SomeCutFits) => estimateMessagesTokens(Kept) <= pruned.budgetTokens

\* C3 as stated: the first half, and otherwise the kept messages are the
\* suffix of the history that starts at the last valid cut point.
C3_ElseSuffixFromLastValidCut ==
    /\ C3_FitsWhenFeasible
    /\ (Called /\ ~SomeCutFits /\ ValidCuts # {})
           => Kept = SliceFrom(history, LastValidCut)

\* C3 amended: the first half, and otherwise (a valid cut point exists but
\* none fits) the kept messages are the message at the last valid cut point
\* followed by those of the toolResults after it that answer its tool calls.
C3_ElseRepairedSuffixFromLastValidCut ==
    /\ C3_FitsWhenFeasible
    /\ (Called /\ ~SomeCutFits /\ ValidCuts # {}) =>
           LET suffix == SliceFrom(history, LastValidCut)
               first == Head(suffix)
           IN  IF LastValidCut = 0
               THEN Kept = history
               ELSE Kept = <<first>> \o SelectSeq(Tail(suffix),
                               LAMBDA r : r.toolCallId \in first.toolCalls)

\* C3 witness: no valid cut point fits, and the repair pass removed an
\* orphan from the suffix of the last valid cut point.
C3_Witness ==
    /\ Called
    /\ ValidCuts # {}
    /\ ~SomeCutFits
    /\ LastValidCut > 0
    /\ Len(Kept) < Len(SliceFrom(history, LastValidCut))

\* C4: for a fixed history and budgets K1 <= K2, the pruner keeps at least
\* as many messages for K2 as for K1.
C4_Monotone ==
    (Called /\ prunedBefore # NoResult) =>
        /\ prunedBefore.budgetTokens <= pruned.budgetTokens
               => Len(prunedBefore.messages) <= Len(pruned.messages)
        /\ pruned.budgetTokens <= prunedBefore.budgetTokens
               => Len(pruned.messages) <= Len(prunedBefore.messages)

\* C4 witness: two calls with growing budget, both dropping a prefix, the
\* second keeping strictly more.
C4_Witness ==
    /\ Called
    /\ prunedBefore # NoResult
    /\ prunedBefore.budgetTokens < pruned.budgetTokens
    /\ prunedBefore.droppedChunks = 1
    /\ pruned.droppedChunks = 1
    /\ Len(prunedBefore.messages) < Len(pruned.messages)

FeasibleCuts == {i \in ValidCuts : SuffixFits(i)}

TurnBoundaryCuts ==
    {i \in FeasibleCuts : history[i + 1].role \in {"user", "bashExecution"}}

Earliest(cuts) == CHOOSE i \in cuts : \A j \in cuts : i <= j

PreferredCut ==
    IF TurnBoundaryCuts # {} THEN Earliest(TurnBoundaryCuts) ELSE Earliest(FeasibleCuts)

\* the pruner cut at index c: exactly the c messages before it were dropped
CutAt(c) == pruned.droppedMessagesList = SliceTo(history, c)

\* C18: if the history's total tokens are at most the budget, the pruner
\* returns the history unchanged and reports zero dropped chunks, zero
\* dropped messages and zero dropped tokens.
C18_FitsReturnedUnchanged ==
    (Called /\ FitsBudget) =>
        /\ Kept = history
        /\ pruned.droppedChunks = 0
        /\ pruned.droppedMessages = 0
        /\ pruned.droppedTokens = 0

\* C18 witness: a history uses the budget exactly, a turn boundary after
\* its first message is a feasible cut point, and nothing was dropped.
C18_Witness ==
    /\ Called
    /\ estimateMessagesTokens(history) = pruned.budgetTokens
    /\ \E i \in TurnBoundaryCuts : i > 0
    /\ Kept = history
    /\ pruned.droppedChunks = 0

\* C19 as stated: when at least one cut point is feasible, the pruner cuts
\* at the earliest feasible cut point that is a turn boundary, and at the
\* earliest feasible cut point of any kind if none is a turn boundary.
C19_CutsAtPreferredCut ==
    (Called /\ FeasibleCuts # {}) => CutAt(PreferredCut)

\* C19 amended: the same, for a history that does not fit the budget; a
\* history that fits is not cut at all.
C19_CutsAtPreferredCutUnlessFits ==
    (Called /\ ~FitsBudget /\ FeasibleCuts # {}) => CutAt(PreferredCut)

\* C19 witness: the history does not fit, an earlier feasible cut point is
\* no turn boundary, and the pruner cut at the later turn boundary.
C19_Witness ==
    /\ Called
    /\ ~FitsBudget
    /\ TurnBoundaryCuts # {}
    /\ Earliest(FeasibleCuts) < Earliest(TurnBoundaryCuts)
    /\ CutAt(Earliest(TurnBoundaryCuts))
    /\ pruned.droppedChunks = 1

\* the pruner kept nothing and reported every message of the history as
\* dropped
EverythingDropped ==
    /\ Kept = <<>>
    /\ pruned.droppedMessages = Len(history)
    /\ pruned.droppedMessagesList = history

\* C20 as stated: for a history with no valid cut point (every message is a
\* toolResult) and every budget, the pruner returns an empty kept list and
\* reports every message as dropped.
C20_NoValidCutDropsEverything ==
    (Called /\ history # <<>> /\ ValidCuts = {}) => EverythingDropped

\* C20 amended: the same, for a history that does not fit the budget; a
\* history of toolResults that fits is returned unchanged.
C20_NoValidCutDropsEverythingUnlessFits ==
    (Called /\ history # <<>> /\ ValidCuts = {} /\ ~FitsBudget) => EverythingDropped

\* C20 witness: a history of several toolResults, the last of which alone
\* would fit the budget, is dropped whole.
C20_Witness ==
    /\ Called
    /\ Len(history) > 1
    /\ ValidCuts = {}
    /\ ~FitsBudget
    /\ estimateTokens(history[Len(history)]) <= pruned.budgetTokens
    /\ EverythingDropped

ToolResultsIn(messages) == SelectSeq(messages, LAMBDA m : m.role = "toolResult")

\* the orphans the repair pass dropped, counted apart from the dropped prefix
OrphansRepaired == pruned.droppedMessages - Len(pruned.droppedMessagesList)

\* the three outcomes of the first pruning scenario
StartsAtUserWithinBudget ==
    /\ Kept # <<>>
    /\ Kept[1].role = "user"
    /\ pruned.droppedChunks = 1
    /\ pruned.keptTokens <= 2000

\* C21 as stated: for three [user(4000 tokens), assistant(4000 tokens)]
\* pairs and a budget of 2000 tokens, the kept suffix starts at a user
\* message, 1 chunk is reported dropped and at most 2000 tokens are kept.
C21_PairsOf4000Tokens ==
    (Called /\ history = PairsHistory(4000) /\ pruned.budgetTokens = 2000)
        => StartsAtUserWithinBudget

\* C21 amended: the same for pairs of 1000-token messages (4000 characters
\* each): the kept suffix is the last pair.
C21_PairsOf1000Tokens ==
    (Called /\ history = PairsHistory(1000) /\ pruned.budgetTokens = 2000)
        => (StartsAtUserWithinBudget /\ Kept = SliceFrom(history, 4))

\* C21 witness: the pruner was called on the pairs of 1000-token messages
\* with a budget of 2000 tokens and kept two messages.
C21_Witness ==
    /\ Called
    /\ history = PairsHistory(1000)
    /\ pruned.budgetTokens = 2000
    /\ Len(Kept) = 2
    /\ pruned.droppedTokens = 4000

\* C22 as stated: for [assistant with toolUse (4000 tokens), its toolResult
\* (3000 tokens), user (500 tokens)] and a budget of 2000 tokens, no
\* toolResult is kept, exactly 1 orphan is reported as repaired, and the
\* kept suffix does not start with a toolResult.
C22_OneOrphanRepaired ==
    (Called /\ history = ToolUseHistory(1) /\ pruned.budgetTokens = 2000) =>
        /\ ToolResultsIn(Kept) = <<>>
        /\ OrphansRepaired = 1
        /\ (Kept = <<>> \/ Kept[1].role # "toolResult")

\* C22 amended: for that history and budget only the user message is kept;
\* the toolResult leaves with the dropped prefix (2 dropped messages) and
\* no orphan is repaired.
C22_ToolResultDroppedWithPrefix ==
    (Called /\ history = ToolUseHistory(1) /\ pruned.budgetTokens = 2000) =>
        /\ ToolResultsIn(Kept) = <<>>
        /\ Kept = SliceFrom(history, 2)
        /\ Len(ToolResultsIn(pruned.droppedMessagesList)) = 1
        /\ pruned.droppedMessages = 2
        /\ OrphansRepaired = 0

\* C22 witness: the pruner was called on that history with a budget of
\* 2000 tokens and dropped its first two messages.
C22_Witness ==
    /\ Called
    /\ history = ToolUseHistory(1)
    /\ pruned.budgetTokens = 2000
    /\ Len(pruned.droppedMessagesList) = 2
    /\ Len(Kept) = 1

\* whenever something is dropped the kept messages are returned in an array
\* other than the input
KeptInNewArray == (Called /\ pruned.droppedChunks = 1) => ~pruned.sameArray

RECURSIVE IsSubsequence(_, _)
IsSubsequence(part, whole) ==
    IF part = <<>> THEN TRUE
    ELSE IF whole = <<>> THEN FALSE
    ELSE IF Head(part) = Head(whole) THEN IsSubsequence(Tail(part), Tail(whole))
    ELSE IsSubsequence(part, Tail(whole))

\* the toolResults of a list whose tool call no earlier message of the list
\* makes
OrphansOf(messages) ==
    {i \in 1..Len(messages) :
        /\ messages[i].role = "toolResult"
        /\ ~CallMadeIn(SubSeq(messages, 1, i - 1), messages[i].toolCallId)}

\* C34: the report accounts for every message once.  The kept messages are
\* a subsequence of the history, the dropped list is the prefix of the
\* history before the cut, droppedMessages is the length of that prefix
\* plus the number of orphaned toolResults the repair pass removed from the
\* rest, kept plus dropped is the length of the history, and droppedChunks
\* is 0 when nothing is dropped and 1 otherwise.
C34_EveryMessageAccounted ==
    Called =>
        LET prefix == Len(pruned.droppedMessagesList)
            rest == SliceFrom(history, prefix)
        IN  /\ IsSubsequence(Kept, history)
            /\ pruned.droppedMessagesList = SliceTo(history, prefix)
            /\ pruned.droppedMessages =
                   prefix + (IF prefix > 0 THEN Cardinality(OrphansOf(rest)) ELSE 0)
            /\ Len(Kept) + pruned.droppedMessages = Len(history)
            /\ pruned.droppedChunks = (IF pruned.droppedMessages = 0 THEN 0 ELSE 1)

\* C34 witness: a prefix of one message was dropped and one orphan was
\* removed from the rest, and a message is kept.
C34_Witness ==
    /\ Called
    /\ Len(pruned.droppedMessagesList) = 1
    /\ pruned.droppedMessages = 2
    /\ Len(Kept) = 1

\* C38: pruning is idempotent.  The pruner applied with the same budget to
\* the messages it returned drops nothing and returns them as they are.
C38_PruningIdempotent ==
    prunedBefore # NoResult =>
        /\ pruned.droppedMessages = 0
        /\ pruned.droppedMessagesList = <<>>
        /\ pruned.messages = prunedBefore.messages

\* C38 witness: the first call dropped a prefix and kept messages that
\* exceed the budget (no feasible cut point), and the second call was made
\* on them.
C38_Witness ==
    /\ prunedBefore # NoResult
    /\ prunedBefore.droppedMessages > 0
    /\ prunedBefore.budgetTokens = pruned.budgetTokens
    /\ estimateMessagesTokens(prunedBefore.messages) > pruned.budgetTokens
    /\ Len(pruned.messages) > 0

(***************************************************************************)
(* Claims about the rewrite of the session log.                            *)
(***************************************************************************)
Rewriting == rewriter.pc = "replaying"

Rewrote ==
    /\ rewriter.pc = "done"
    /\ "truncated" \in DOMAIN rewriter.result
    /\ rewriter.result.truncated

\* the branch the rewriter read, from its first oversized entry on
FirstOversized == CHOOSE i \in rewriter.oversized : \A j \in rewriter.oversized : i <= j

ReplayedEntries == SubSeq(rewriter.branch, FirstOversized, Len(rewriter.branch))

\* what the rewriter appended and left on its active branch
IsRewritten(entry) == entry.id > Len(rewriter.branch)

RewrittenEntries == SelectSeq(getBranch(sessionFile, rewriter.leafId), IsRewritten)

StructuralTypes ==
    {"model_change", "label", "branch_summary", "thinking_level_change",
     "session_info", "custom"}

IsStructural(entry) == entry.type \in StructuralTypes

Contents(entries) == [k \in 1..Len(entries) |-> <<entries[k].type, entries[k].value>>]

\* C8: while the rewriter is between its first and its last write it holds
\* the session write lock, and once it has returned, on whatever path, it
\* holds it no longer.
C8_RewriteUnderExclusiveLock ==
    /\ Rewriting => sessionLock = "rewriter"
    /\ rewriter.pc = "done" => sessionLock # "rewriter"

\* C9: after a rewrite, the structural entries that followed the first
\* oversized entry are on the rewritten active branch, in the same order and
\* with the same content.
C9_StructuralEntriesPreserved ==
    Rewrote =>
        Contents(SelectSeq(RewrittenEntries, IsStructural))
            = Contents(SelectSeq(ReplayedEntries, IsStructural))

\* C10: the rewriter always ends with a result, never with a throw, and a
\* failure of the open, of the branching or of an append ends it with
\* truncated = false and the failure as the reason.
C10_FailuresAreReported ==
    rewriter.pc = "done" =>
        /\ {"truncated", "truncatedCount"} \subseteq DOMAIN rewriter.result
        /\ rewriter.failure # "none" =>
              rewriter.result = [truncated |-> FALSE, truncatedCount |-> 0,
                                 reason |-> rewriter.failure]

C10_Witness ==
    /\ rewriter.pc = "done"
    /\ rewriter.failure = "append failed"
    /\ rewriter.truncatedCount > 0
    /\ rewriter.result.truncated = FALSE
    /\ rewriter.result.reason = "append failed"

IsMessage(entry) == entry.type = "message"

\* the oversize test of the scan, for the window of this rewrite
Oversize(entry) ==
    /\ entry.role = "toolResult"
    /\ \/ TextLength(entry.text) > rewriter.maxChars
       \/ byteLength(entry.text) > TOOL_OUTPUT_HARD_MAX_BYTES
       \/ countLines(entry.text) > TOOL_OUTPUT_HARD_MAX_LINES

OversizedOnBranch ==
    {i \in 1..Len(rewriter.branch) :
        IsMessage(rewriter.branch[i]) /\ Oversize(rewriter.branch[i])}

ReplayedMessages == SelectSeq(ReplayedEntries, IsMessage)

\* the message entries the rewriter appended to the file, in file order
RewrittenMessages ==
    SelectSeq(SubSeq(sessionFile, Len(rewriter.branch) + 1, Len(sessionFile)),
              IsMessage)

\* new is a shorter prefix of old followed by the truncation marker
Clamped(old, new) ==
    /\ new.role = old.role
    /\ TextLength(new.text) < TextLength(old.text)
    /\ new.text.tails # <<>>
    /\ new.text.tails[Len(new.text.tails)] = SuffixTextChars
    /\ sliceText(old.text, TextLength(new.text) - SuffixTextChars)
           = Text(new.text.body, SubSeq(new.text.tails, 1, Len(new.text.tails) - 1))

\* C11: on a successful rewrite truncatedCount is the number of oversized
\* toolResult entries on the branch, and the messages from the first
\* oversized entry on are re-appended in their order, the oversized ones
\* clamped and every other one unchanged.
C11_ExactlyOversizedClamped ==
    Rewrote =>
        /\ rewriter.result.truncatedCount = Cardinality(OversizedOnBranch)
        /\ Len(RewrittenMessages) = Len(ReplayedMessages)
        /\ \A k \in 1..Len(ReplayedMessages) :
              IF Oversize(ReplayedMessages[k])
              THEN Clamped(ReplayedMessages[k], RewrittenMessages[k])
              ELSE PayloadOf(RewrittenMessages[k]) = PayloadOf(ReplayedMessages[k])

\* C11 witness: a rewrite that clamped an entry beyond the hard byte cap and
\* one beyond maxChars and re-appended another message unchanged.
C11_Witness ==
    /\ Rewrote
    /\ rewriter.result.truncatedCount = 2
    /\ \E k \in 1..Len(ReplayedMessages) : ReplayedMessages[k].text = MidText
    /\ \E k \in 1..Len(ReplayedMessages) : ReplayedMessages[k].text = BigText
    /\ \E k \in 1..Len(ReplayedMessages) :
          /\ ~Oversize(ReplayedMessages[k])
          /\ PayloadOf(RewrittenMessages[k]) = PayloadOf(ReplayedMessages[k])

\* C12: after a rewrite that returned truncated = true, no toolResult on the
\* active branch passes the oversize test of the same context window.
C12_NothingOversizedAfterRewrite ==
    Rewrote =>
        LET branch == getBranch(sessionFile, rewriter.leafId) IN
        \A i \in 1..Len(branch) : IsMessage(branch[i]) => ~Oversize(branch[i])

\* the payloads on the active branch of the persisted log, in order
ActiveBranch == [k \in 1..Len(getBranch(sessionFile, openLeaf(sessionFile))) |->
                    PayloadOf(getBranch(sessionFile, openLeaf(sessionFile))[k])]

\* C37: if the rewriter returns truncated = false, also after a failure
\* part-way through the replay, the active branch of the persisted log
\* holds the same entries in the same order as before the call (no other
\* process having written to the log).
C37_UntouchedUnlessTruncated ==
    (/\ rewriter.pc = "done"
     /\ ~rewriter.result.truncated
     /\ compactor.pc = "idle")
    => IF rewriter.branch = <<>>
       THEN \A k \in 1..Len(sessionFile) : sessionFile[k].parentId = k - 1
       ELSE ActiveBranch = [k \in 1..Len(rewriter.branch) |-> PayloadOf(rewriter.branch[k])]

(***************************************************************************)
(* Claims about hardTruncateText.                                          *)
(***************************************************************************)
Clamped1 == clamp.out # NoResult

HasLoneSurrogate(text) ==
    \E i \in 1..Len(text) :
        \/ text[i] = "H" /\ ~IsPairAt(text, i)
        \/ text[i] = "L" /\ ~IsPairAt(text, i - 1)

\* C13: the returned text has at most maxBytes bytes of UTF-8 and at most
\* maxLines lines, marker included, and no surrogate outside a pair.
C13_WithinLimits ==
    Clamped1 =>
        /\ byteLengthUnits(clamp.out.text) <= clamp.maxBytes
        /\ countLinesUnits(clamp.out.text) <= clamp.maxLines
        /\ ~HasLoneSurrogate(clamp.out.text)

\* C14: the call repeated on the returned text, with the same limits and
\* marker, returns that text.
C14_Idempotent ==
    clamp.again # NoResult => clamp.again.text = clamp.out.text

\* C14 witness: a text over both limits was cut, and the repeated call
\* returned the cut text.
C14_Witness ==
    /\ clamp.again # NoResult
    /\ clamp.out.truncated
    /\ byteLengthUnits(clamp.text) > clamp.maxBytes
    /\ countLinesUnits(clamp.text) > clamp.maxLines
    /\ Len(clamp.out.text) > Len(marker(<<>>, clamp.suffix)) + 1
    /\ clamp.again.text = clamp.out.text

(***************************************************************************)
(* Claims about hardCapToolOutput.                                         *)
(***************************************************************************)
\* C15: the serialized value that is returned has at most maxBytes bytes.
C15_OutputWithinBudget ==
    capper.pc = "done" => capper.result.outBytes <= capper.maxBytes

\* C16: no call ends with a throw.
C16_NeverThrows == capper.pc # "thrown"

\* C17: the walk goes into no container of the payload a second time.
C17_NoContainerWalkedTwice ==
    \A i, j \in 1..Len(capper.entered) :
        capper.entered[i] = capper.entered[j] => i = j

(***************************************************************************)
(* Claims about the session tool-result guard.                             *)
(***************************************************************************)
ToolResultsOf(transcript, id) ==
    {k \in 1..Len(transcript) :
         transcript[k].role = "toolResult" /\ transcript[k].toolCallId = id}

CallsOf(transcript, id) ==
    {k \in 1..Len(transcript) :
         /\ transcript[k].role = "assistant"
         /\ \E c \in 1..Len(transcript[k].calls) : transcript[k].calls[c] = id}

\* C31: every toolResult the guarded append has persisted, a real one or a
\* synthetic one, after the transform hook has run, holds at most 51200
\* UTF-8 bytes of content and at most 2000 lines.
C31_PersistedWithinHardCap ==
    \A k \in 1..Len(guard.transcript) :
        guard.transcript[k].role = "toolResult"
        => /\ guard.transcript[k].bytes <= TOOL_OUTPUT_HARD_MAX_BYTES
           /\ guard.transcript[k].lines <= TOOL_OUTPUT_HARD_MAX_LINES

\* C35: with synthetic results enabled, right after the guard has persisted
\* a message that is not a toolResult, every tool call of every assistant
\* message persisted before it is followed by a persisted toolResult of its
\* id, and the pending calls are exactly the tool calls of the message just
\* appended.
C35_PendingFlushedBeforeAppend ==
    (/\ guard.allowSyntheticToolResults
     /\ guard.last.op = "append"
     /\ guard.last.role # "toolResult")
    => LET t == guard.transcript
           n == Len(t)
       IN  /\ \A k \in 1..(n - 1) :
                  t[k].role = "assistant"
                  => \A c \in 1..Len(t[k].calls) :
                         \E j \in (k + 1)..(n - 1) :
                             /\ t[j].role = "toolResult"
                             /\ t[j].toolCallId = t[k].calls[c]
           /\ guard.pending = pendingSetAll(<<>>, t[n].calls)

\* an assistant message with tool calls was appended while an older call
\* was still pending: the synthetic result stands right before it
C35_Witness ==
    /\ guard.allowSyntheticToolResults
    /\ guard.last.op = "append"
    /\ Len(guard.transcript) >= 3
    /\ LET n == Len(guard.transcript)
       IN  /\ guard.transcript[n].role = "assistant"
           /\ guard.transcript[n].calls # <<>>
           /\ guard.transcript[n - 1].isSynthetic
           /\ guard.transcript[n - 2].role = "assistant"

\* C36: the guard persists at most one toolResult for a tool call: never more
\* results of an id than assistant messages calling it (one, for an id no
\* message calls), so never a synthetic and a real result of the same call.
C36_OneResultPerCall ==
    \A id \in CallIds :
        Cardinality(ToolResultsOf(guard.transcript, id))
            <= Max(1, Cardinality(CallsOf(guard.transcript, id)))

(***************************************************************************)
(* Claims about the session_compact tool.                                  *)
(***************************************************************************)
\* C32: session_compact executed for a session whose compaction request is
\* already pending reports status "skipped", reason "duplicate" and
\* scheduled = false, and the request stays pending; executed within the
\* cooldown after a completed tool-requested compaction (no request
\* pending) it reports status "skipped", reason "cooldown" and a numeric
\* retryAfterMs.
C32_SkippedWhenDuplicateOrCooldown ==
    (compactions.call.op = "execute" /\ compactions.call.hadSessionKey)
    => /\ compactions.call.wasRequested
          => /\ compactions.details.status = "skipped"
             /\ compactions.details.reason = "duplicate"
             /\ ~compactions.details.scheduled
             /\ compactions.requested
       /\ (~compactions.call.wasRequested /\ compactions.call.inCooldown)
          => /\ compactions.details.status = "skipped"
             /\ compactions.details.reason = "cooldown"
             /\ compactions.details.retryAfterMs.isNumber

(***************************************************************************)
(* Claims about the Telegram webhook spool.                                *)
(***************************************************************************)
\* C33: every update answered with 200 is in the spool before bot.handleUpdate
\* is called for it; its record is deleted only after a processing of it
\* succeeded; and a record whose processing failed stays in the spool, for a
\* later replay, as long as no processing of it has succeeded.
C33_SpooledBeforeProcessedKeptUntilSuccess ==
    \A update \in telegram.acked :
        /\ update \notin telegram.unspooledStart
        /\ update \notin telegram.deletedEarly
        /\ (/\ telegram.failed[update] > 0
            /\ telegram.succeeded[update] = 0
            /\ telegram.handler[update] = "done")
           => update \in telegram.spool

====
